---- MODULE Spec2Model ----
(***************************************************************************)
(* The pipeline runtime, the store-and-forward engine and the message-bus  *)
(* trigger of app-functions-sdk-go as one state machine.                   *)
(*                                                                         *)
(* Pipeline workers (one per inbound message) decode an envelope, capture  *)
(* the current transform list and run it; a failing stage that left retry  *)
(* data behind hands the data to storeForLaterRetry.  One retry-loop       *)
(* worker retrieves the stored objects of the service on every tick,       *)
(* re-executes those whose pipeline hash still matches and then applies    *)
(* the removals and updates it computed.                                   *)
(***************************************************************************)
EXTENDS Integers, Sequences, FiniteSets, TLC

(***************************************************************************)
(* Bounds of the model.                                                    *)
(***************************************************************************)
MaxMsgs == 2        \* inbound messages accepted by the trigger
MaxStored == 2      \* identifiers the persistence port hands out
MaxExecs == 3       \* re-executions of one stored object
MaxSets == 2        \* SetTransforms calls
MaxEnables == 1     \* re-enables of store-and-forward
MaxLen == 2         \* transforms in a list whose hash is compared
MaxAux == 1         \* bus errors, and background messages, the trigger is sent
MaxBackground == 2  \* background messages where their order matters
MaxChars == 3       \* characters of a SubscribeTopics string
MaxCalls == 2       \* RegisterCustomTriggerFactory calls

Nil == -1           \* Go's nil (interface value)
NilBytes == <<Nil>>  \* a nil []byte, as opposed to the empty slice <<>>

serviceKey == "AppService-UnitTest"

(***************************************************************************)
(* Transforms are opaque functions.  What the engine sees of one is the    *)
(* name runtime.FuncForPC reports for it; k tells apart two transforms     *)
(* and fixes the value the transform computes from its input.              *)
(***************************************************************************)
FilterT == [name |-> "transforms.Filter.FilterByDeviceID", k |-> 1]
PostA == [name |-> "transforms.HTTPSender.HTTPPost", k |-> 2]
PostB == [name |-> "transforms.HTTPSender.HTTPPost", k |-> 3]

Pipelines ==
    { <<FilterT, PostA>>, <<FilterT, PostB>>, <<PostA, FilterT>>,
      <<FilterT, PostA, PostB>> }

(***************************************************************************)
(* What one invocation of a transform does: cont and res are the pair it   *)
(* returns (res: a value, nil, an error, or no return at all when it       *)
(* panics), retry is what it leaves in the context's retry-data slot and   *)
(* resp what it writes to the response payload (nil: untouched), ctype     *)
(* the response content type it sets (empty: none).  A stage asks for a    *)
(* retry in the call that ends the pipeline.                               *)
(***************************************************************************)
JsonBytes == <<123, 125>>     \* "{}"
CborBytes == <<161>>          \* 0xA1, a CBOR map

StageOutcomes ==
    { [cont |-> TRUE,  res |-> "val",   retry |-> Nil, resp |-> NilBytes,
       ctype |-> ""],
      [cont |-> TRUE,  res |-> "nil",   retry |-> Nil, resp |-> JsonBytes,
       ctype |-> ""],
      [cont |-> FALSE, res |-> "nil",   retry |-> Nil, resp |-> NilBytes,
       ctype |-> ""],
      [cont |-> FALSE, res |-> "nil",   retry |-> Nil, resp |-> JsonBytes,
       ctype |-> "text/plain"],
      [cont |-> FALSE, res |-> "val",   retry |-> 7,   resp |-> CborBytes,
       ctype |-> ""],
      [cont |-> FALSE, res |-> "err",   retry |-> Nil, resp |-> NilBytes,
       ctype |-> ""],
      [cont |-> FALSE, res |-> "err",   retry |-> 7,   resp |-> NilBytes,
       ctype |-> ""],
      [cont |-> FALSE, res |-> "crash", retry |-> 7,   resp |-> NilBytes,
       ctype |-> ""],
      [cont |-> FALSE, res |-> "nil",   retry |-> Nil, resp |-> <<>>,
       ctype |-> ""],
      [cont |-> FALSE, res |-> "nil",   retry |-> Nil, resp |-> <<>>,
       ctype |-> "text/plain"] }

(***************************************************************************)
(* Inbound envelopes.  The decoder accepts JSON and CBOR; ok tells whether *)
(* the payload unmarshals, value is the decoded input.                     *)
(***************************************************************************)
ContentTypeJSON == "application/json"
ContentTypeCBOR == "application/cbor"

Payloads ==
    { [ok |-> TRUE, value |-> 1], [ok |-> FALSE, value |-> Nil] }

Envelopes ==
    { [ContentType |-> ct, Payload |-> p] :
        ct \in {ContentTypeJSON, "text/plain"}, p \in Payloads }

VARIABLES
    transforms,     \* GolangRuntime.transforms
    pipelineHash,   \* storeForwardInfo.pipelineHash
    config,         \* Writable.StoreAndForward of the configuration
    store,          \* the stored objects behind the persistence port
    nextId,         \* the next identifier Store assigns
    msgs,           \* one pipeline worker per inbound message
    last,           \* what the processMessage that finished last did
    bus,            \* envelopes published to the publish topic
    loop,           \* the retry-loop worker
    execs,          \* stored object id -> re-executions so far
    portErrs,       \* ids whose Update or RemoveFromStore call failed
    sets,           \* SetTransforms calls so far
    old,            \* the retry-loop worker of the previous enable
    cancelled,      \* which contexts are cancelled: app, enabled (current)
    enables,        \* re-enables of store-and-forward so far
    probe,          \* two transform lists and the hashes computed for them
    consumers,      \* the consumer goroutine of each subscribed topic
    auxiliary,      \* the goroutine for bus errors and background publishing
    appWg,          \* the counter of the application wait group
    shutdown,       \* how far the shutdown sequence of the service has come
    boot,           \* Trigger.Initialize: its position, what it did, its result
    sdk             \* AppFunctionsSDK: custom trigger factories, results of calls

ctl == <<cancelled, enables>>

trg == <<consumers, auxiliary, appWg>>

vars == <<transforms, pipelineHash, config, store, nextId, msgs, last, bus,
          loop, execs, portErrs, sets, old, ctl, probe, trg, shutdown,
          boot, sdk>>

Msgs == 1..MaxMsgs
Ids == 1..MaxStored

(***************************************************************************)
(* Sequences as the code walks them.                                       *)
(***************************************************************************)
Range(s) == { s[i] : i \in 1..Len(s) }

PermsOf(S) ==
    { s \in [1..Cardinality(S) -> S] : Range(s) = S }

(***************************************************************************)
(* storeForwardInfo.calculatePipelineHash: the prefix, then a blank and    *)
(* the function name of every transform in order.                          *)
(***************************************************************************)
RECURSIVE hashFrom(_, _, _)
hashFrom(hash, list, i) ==
    IF i > Len(list) THEN hash
    ELSE hashFrom(hash \o " " \o list[i].name, list, i + 1)

calculatePipelineHash(list) == hashFrom("Pipeline-functions: ", list, 1)

(***************************************************************************)
(* The per-message context: correlation-id, retry-data slot, response      *)
(* payload, and the configuration it refers to (read when needed).         *)
(***************************************************************************)
\* A faulty context: a response payload is there before any stage ran.
NewContextAnswered(correlationID) ==
    [CorrelationID |-> correlationID, RetryData |-> Nil,
     ResponseData |-> JsonBytes,
     ResponseContentType |-> ""]

NewContext(correlationID) ==
    [CorrelationID |-> correlationID, RetryData |-> Nil,
     ResponseData |-> NilBytes,
     ResponseContentType |-> ""]

CorrelationOf(m) == 100 + m

(***************************************************************************)
(* The value a continuing stage hands to the next one.                     *)
(***************************************************************************)
StageOutput(t, input, o) ==
    IF o.res # "val" THEN Nil
    ELSE 3 * (IF input = Nil THEN 0 ELSE input) + t.k

StageEffect(ctx, o) ==
    [ctx EXCEPT !.RetryData = o.retry,
                !.ResponseData = IF o.resp = NilBytes THEN @ ELSE o.resp,
                !.ResponseContentType = IF o.ctype = "" THEN @ ELSE o.ctype]

(***************************************************************************)
(* What the stages of one run may do, first executed stage first: every    *)
(* stage but the last continues; the last one continues only when it is    *)
(* the n-th.                                                               *)
(***************************************************************************)
ContOutcomes == { o \in StageOutcomes : o.cont }
StopOutcomes == { o \in StageOutcomes : ~o.cont }

RECURSIVE OutcomeRuns(_)
OutcomeRuns(n) ==
    IF n <= 0 THEN {<<>>}
    ELSE { <<o>> : o \in StopOutcomes }
         \cup { <<o>> \o r : o \in ContOutcomes, r \in OutcomeRuns(n - 1) }


(***************************************************************************)
(* GolangRuntime.executePipeline: stages list[pos], list[pos+1], ... from  *)
(* the start position (0-based), each on the previous output.  The result  *)
(* tells whether an error is returned and of which kind, the stage that    *)
(* ended the run (-1: none), whether the engine is asked to persist, the   *)
(* context and the invocations made.                                       *)
(***************************************************************************)
\* A faulty driver: every stage is handed the input of the one before it.
nextInputUnchained(t, prev, o) == prev

nextInput(t, prev, o) == StageOutput(t, prev, o)

\* A faulty driver: retry data is persisted whatever the stage returned.
asksPersistAlways(o, ctx) == ctx.RetryData # Nil

asksPersist(o, ctx) == o.res = "err" /\ ctx.RetryData # Nil

errorKind(o) ==
    IF o.res = "err" THEN "stage-error"
    ELSE IF o.res = "crash" THEN "stage-crash"
    ELSE "stop"

RECURSIVE executePipeline(_, _, _, _, _, _)
executePipeline(prev, ctx, list, pos, outs, calls) ==
    IF pos >= Len(list)
    THEN [err |-> FALSE, kind |-> "none", at |-> -1, persist |-> FALSE,
          ctx |-> ctx, calls |-> calls]
    ELSE LET o == Head(outs)
             t == list[pos + 1]
             ctx1 == StageEffect(ctx, o)
             calls1 == Append(calls, [position |-> pos, input |-> prev,
                                      cont |-> o.cont,
                                      output |-> StageOutput(t, prev, o)])
         IN  IF o.cont
             THEN executePipeline(nextInput(t, prev, o), ctx1, list, pos + 1,
                                  Tail(outs), calls1)
             ELSE [err |-> o.res \in {"err", "crash"},
                   kind |-> errorKind(o),
                   at |-> pos,
                   persist |-> asksPersist(o, ctx1),
                   ctx |-> ctx1,
                   calls |-> calls1]

(***************************************************************************)
(* The persistence port: Store assigns the identifier, RetrieveFromStore   *)
(* returns the objects of one service key, Update replaces the object with *)
(* the item's identifier, RemoveFromStore deletes it.                      *)
(***************************************************************************)
NewStoredObject(appServiceKey, payload, pipelinePosition, version) ==
    [ID |-> 0, AppServiceKey |-> appServiceKey, Payload |-> payload,
     RetryCount |-> 0, PipelinePosition |-> pipelinePosition,
     Version |-> version, CorrelationID |-> 0]

Store(db, item, id) == db \cup {[item EXCEPT !.ID = id]}

\* A faulty store client: the objects of every service are returned.
RetrieveFromStoreOfAll(db, appServiceKey) == db

RetrieveFromStore(db, appServiceKey) ==
    { o \in db : o.AppServiceKey = appServiceKey }

Update(db, item) ==
    IF \E o \in db : o.ID = item.ID
    THEN { o \in db : o.ID # item.ID } \cup {item}
    ELSE db

\* A faulty store client: every object of the item's service is removed.
RemoveFromStoreOfService(db, item) ==
    { o \in db : o.AppServiceKey # item.AppServiceKey }

RemoveFromStore(db, item) == { o \in db : o.ID # item.ID }

IdsOf(items) == { o.ID : o \in items }

(***************************************************************************)
(* storeForwardInfo.storeForLaterRetry: the object built from the retry    *)
(* data, and the store after the call (storeOk: Store returned no error).  *)
(***************************************************************************)
\* A faulty engine: the object does not take the context's correlation-id.
retryItemUncorrelated(payload, edgexcontext, pipelinePosition) ==
    NewStoredObject(serviceKey, payload, pipelinePosition, pipelineHash)

retryItem(payload, edgexcontext, pipelinePosition) ==
    [NewStoredObject(serviceKey, payload, pipelinePosition, pipelineHash)
        EXCEPT !.CorrelationID = edgexcontext.CorrelationID]

\* A faulty engine: the Enabled switch is not consulted.
storesItemUnguarded(storeOk) == storeOk

storesItem(storeOk) == config.Enabled /\ storeOk

storeForLaterRetry(payload, edgexcontext, pipelinePosition, storeOk) ==
    IF storesItem(storeOk)
    THEN Store(store, retryItem(payload, edgexcontext, pipelinePosition), nextId)
    ELSE store

(***************************************************************************)
(* Initial state: a runtime without transforms, an empty store, the        *)
(* configuration as loaded, no message received, the retry loop not        *)
(* started.                                                                *)
(***************************************************************************)
MaxRetryCounts == {-1, 0, 1, 2}

NewMsg ==
    [pc |-> "new", topic |-> "", list |-> <<>>, input |-> Nil,
     ctx |-> NewContext(0), why |-> ""]

NoRun ==
    [m |-> 0, topic |-> "", decoded |-> FALSE, list |-> <<>>, input |-> Nil,
     ctx |-> NewContext(0), err |-> FALSE, kind |-> "none", at |-> -1,
     calls |-> <<>>,
     enabled |-> FALSE, storeOk |-> FALSE, hash |-> "", key |-> "",
     added |-> {}, published |-> {}, pubOk |-> FALSE, panicked |-> FALSE,
     why |-> "", during |-> FALSE]

IdleLoop ==
    [pc |-> "init", items |-> <<>>, i |-> 1, itemsToRemove |-> <<>>,
     itemsToUpdate |-> <<>>, hash |-> "", log |-> <<>>, removeErr |-> {},
     updateErr |-> {}, applied |-> FALSE, configured |-> 0, late |-> FALSE,
     list |-> <<>>, failed |-> FALSE]

NoLoop == [IdleLoop EXCEPT !.pc = "none"]

(***************************************************************************)
(* Trigger.Initialize has run: for every subscribed topic a consumer        *)
(* goroutine and one auxiliary goroutine are at their select, each added   *)
(* to the application wait group before it was started.  An empty          *)
(* SubscribeTopics is one subscription to the blank topic.                 *)
(***************************************************************************)
Topics == {"", "events"}

Started == [pc |-> "select", dones |-> 0]

\* The nil Trigger.
NilTrigger == [kind |-> "nil", factory |-> 0]

\* An AppFunctionsSDK with no custom factory registered (the map is nil),
\* before any call; registered, setup and pipeline keep what the last call
\* of RegisterCustomTriggerFactory, of setupTrigger and of SetPipeline was
\* given and returned, export the parameters and the result of the call of
\* HTTPExport made through the Configurable of this SDK (pc: no call, a
\* call to come, returned).
NewSDK ==
    [customTriggerFactories |-> <<>>,
     calls |-> 0,
     export |-> [parameters |-> <<>>, transform |-> [function |-> "nil",
                 sender |-> "nil"], logged |-> FALSE, pc |-> "none"],
     pipeline |-> [list |-> <<>>, err |-> FALSE, before |-> <<>>,
                   hash |-> "", done |-> FALSE],
     registered |-> [name |-> <<>>, err |-> FALSE, before |-> <<>>,
                     done |-> FALSE],
     setup |-> [type |-> <<>>, t |-> NilTrigger, logged |-> FALSE,
                factoryOk |-> TRUE, factories |-> <<>>, done |-> FALSE]]

\* Initialize before its first statement, and after it returned its
\* deferred function (the arguments of a finished call are not kept).
NotInitialized ==
    [pc |-> "start", subscribeTopics |-> <<>>, topics |-> <<>>,
     connected |-> FALSE, subscribed |-> <<>>, started |-> <<>>,
     aux |-> FALSE, result |-> "none", deferred |-> FALSE]

Initialized ==
    [NotInitialized EXCEPT !.pc = "returned", !.connected = TRUE,
                           !.aux = TRUE, !.result = "ok", !.deferred = TRUE]

\* The auxiliary goroutine; inbox is how many envelopes the application
\* puts on the background channel, background how many of them have been
\* received, pending the ones whose publisher has not run yet, attempts
\* the Publish calls the publishers made.
StartedAux(inbox) ==
    [pc |-> "select", dones |-> 0, errors |-> 0, inbox |-> inbox,
     background |-> 0, pending |-> {}, attempts |-> <<>>]

Subscriptions ==
    { [t \in T |-> Started] : T \in (SUBSET Topics) \ {{}} }

NoProbe == [a |-> <<>>, b |-> <<>>, ha |-> "", hb |-> "", hashed |-> FALSE]

Init ==
    /\ transforms = <<>>
    /\ pipelineHash = ""
    /\ config \in [Enabled : BOOLEAN, MaxRetryCount : MaxRetryCounts]
    /\ store = {}
    /\ nextId = 1
    /\ msgs = [m \in Msgs |-> NewMsg]
    /\ last = NoRun
    /\ bus = {}
    /\ loop = IdleLoop
    /\ execs = [id \in Ids |-> 0]
    /\ portErrs = {}
    /\ sets = 0
    /\ old = NoLoop
    /\ cancelled = [app |-> FALSE, enabled |-> FALSE]
    /\ enables = 0
    /\ probe = NoProbe
    /\ consumers \in Subscriptions
    /\ auxiliary = StartedAux(MaxAux)
    /\ appWg = Cardinality(DOMAIN consumers) + 1
    /\ shutdown = "running"
    /\ boot = Initialized
    /\ sdk = NewSDK

(***************************************************************************)
(* GolangRuntime.SetTransforms: the list is replaced and the hash of the   *)
(* new list recorded.                                                      *)
(***************************************************************************)
\* A panic no goroutine recovers from ends the process.
Alive == \A m \in Msgs : msgs[m].pc # "panicked"

SetTransforms ==
    \E list \in Pipelines :
        /\ Alive
        /\ sets < MaxSets
        /\ list # transforms
        /\ transforms' = list
        /\ pipelineHash' = calculatePipelineHash(list)
        /\ sets' = sets + 1
        /\ UNCHANGED <<config, store, nextId, msgs, last, bus, loop, execs,
                       portErrs, old, ctl, probe, trg, shutdown, boot, sdk>>

(***************************************************************************)
(* Trigger.processMessage up to the start of the pipeline: the context is  *)
(* built from the envelope, ProcessMessage decodes the payload and copies  *)
(* the transform list.  A payload that does not decode ends the message    *)
(* with an error.                                                          *)
(***************************************************************************)
TargetTypes == {"event", "notpointer"}

decodeError(env, target) ==
    IF target = "notpointer" THEN "target-not-addressable"
    ELSE IF env.ContentType \notin {ContentTypeJSON, ContentTypeCBOR}
    THEN "unsupported-content-type"
    ELSE IF ~env.Payload.ok THEN "malformed"
    ELSE ""

\* A faulty decoder: whatever arrives is handed to the pipeline.
decodesAnything(env, target) == TRUE

decodes(env, target) == decodeError(env, target) = ""

\* A faulty consumer: processMessage is called in the consumer's own loop.
backAfterWorkers(t) ==
    consumers[t].pc = "select" /\ \A n \in Msgs : msgs[n].pc # "ready"

backAtSelect(t) == consumers[t].pc = "select"

ReceiveOn(t) ==
    \E m \in Msgs :
      /\ Alive
      /\ backAtSelect(t)
      /\ msgs[m].pc = "new"
      /\ \A n \in Msgs : n < m => msgs[n].pc # "new"
      /\ \E env \in Envelopes, target \in TargetTypes :
        /\ IF decodes(env, target)
           THEN /\ msgs' = [msgs EXCEPT ![m] =
                      [pc |-> "ready", topic |-> t, list |-> transforms,
                       input |-> env.Payload.value,
                       ctx |-> NewContext(CorrelationOf(m)),
                       why |-> decodeError(env, target)]]
                /\ last' = last
           ELSE /\ msgs' = [msgs EXCEPT ![m] =
                      [NewMsg EXCEPT !.pc = "done", !.topic = t]]
                /\ last' = [NoRun EXCEPT !.m = m, !.topic = t, !.err = TRUE,
                                         !.kind = "decode",
                                         !.why = decodeError(env, target),
                                         !.ctx = NewContext(CorrelationOf(m))]
        /\ UNCHANGED <<transforms, pipelineHash, config, store, nextId, bus,
                       loop, execs, portErrs, sets, old, ctl, probe, trg,
                       shutdown, boot, sdk>>

Receive == \E t \in DOMAIN consumers : ReceiveOn(t)

(***************************************************************************)
(* Trigger.processMessage from the pipeline on: executePipeline on the     *)
(* copied list; a failing stage that asks for it has its retry data        *)
(* stored; without an error a response payload left in the context is      *)
(* published with the content type the trigger derives.                    *)
(***************************************************************************)
PublishTopic == "PublishTopic"

\* ResponseData()[0] on a slice without a first byte: index out of range.
indexPanics(ctx) ==
    ctx.ResponseContentType = "" /\ Len(ctx.ResponseData) = 0

responseContentType(ctx) ==
    IF ctx.ResponseContentType # "" THEN ctx.ResponseContentType
    ELSE IF ctx.ResponseData[1] = 123 THEN ContentTypeJSON
    ELSE ContentTypeCBOR

\* A faulty trigger: the envelope is given a correlation-id of its own.
outputEnvelopeUncorrelated(ctx) ==
    [CorrelationID |-> 0, Payload |-> ctx.ResponseData,
     ContentType |-> responseContentType(ctx)]

outputEnvelope(ctx) ==
    [CorrelationID |-> ctx.CorrelationID, Payload |-> ctx.ResponseData,
     ContentType |-> responseContentType(ctx)]

\* A faulty trigger: the response is published even after an error.
publishesDespiteError(messageError, ctx) == ctx.ResponseData # NilBytes

publishes(messageError, ctx) ==
    ~messageError /\ ctx.ResponseData # NilBytes

Run ==
    \E m \in Msgs :
      /\ Alive
      /\ msgs[m].pc = "ready"
      /\ \E outs \in OutcomeRuns(Len(msgs[m].list)) :
         \E r \in { executePipeline(msgs[m].input, msgs[m].ctx, msgs[m].list,
                                    0, outs, <<>>) } :
          LET w == msgs[m]
              panics == publishes(r.err, r.ctx) /\ indexPanics(r.ctx)
              pub == publishes(r.err, r.ctx) /\ ~panics
          IN  \E storeOk \in (IF r.persist /\ config.Enabled THEN BOOLEAN ELSE {TRUE}),
                 pubOk \in (IF pub THEN BOOLEAN ELSE {TRUE}) :
                LET adds == r.persist /\ storesItem(storeOk)
                    store1 == IF r.persist
                              THEN storeForLaterRetry(r.ctx.RetryData, r.ctx, r.at, storeOk)
                              ELSE store
                    bus1 == IF pub /\ pubOk
                            THEN bus \cup {[topic |-> PublishTopic,
                                            envelope |-> outputEnvelope(r.ctx)]}
                            ELSE bus
                IN  /\ adds => nextId <= MaxStored
                    /\ store' = store1
                    /\ nextId' = IF adds THEN nextId + 1 ELSE nextId
                    /\ bus' = bus1
                    /\ msgs' = [msgs EXCEPT ![m] = [NewMsg EXCEPT
                                  !.pc = IF panics THEN "panicked" ELSE "done",
                                  !.topic = w.topic]]
                    /\ last' = [m |-> m, topic |-> w.topic, decoded |-> TRUE, list |-> w.list,
                                input |-> w.input, ctx |-> r.ctx, err |-> r.err,
                                kind |-> r.kind, at |-> r.at, calls |-> r.calls,
                                enabled |-> config.Enabled, storeOk |-> storeOk,
                                hash |-> calculatePipelineHash(transforms),
                                key |-> serviceKey,
                                added |-> store1 \ store,
                                published |-> bus1 \ bus,
                                pubOk |-> pub /\ pubOk, panicked |-> panics,
                                why |-> w.why,
                                during |-> loop.pc \in {"check", "exec", "apply"}]
      /\ UNCHANGED <<transforms, pipelineHash, config, loop, execs, portErrs,
                     sets, old, ctl, probe, trg, shutdown, boot, sdk>>

(***************************************************************************)
(* The goroutines Trigger.Initialize starts.  A consumer at its select     *)
(* takes a message (ReceiveOn) or, once the application context is         *)
(* cancelled, returns; the auxiliary goroutine logs a bus error, starts a  *)
(* publisher for a background message, or returns likewise.  The deferred  *)
(* appWg.Done runs at the return.                                          *)
(***************************************************************************)
returned(g) == [g EXCEPT !.pc = "exited", !.dones = @ + 1]

ConsumerExit(t) ==
    /\ Alive
    /\ t \in DOMAIN consumers
    /\ consumers[t].pc = "select"
    /\ cancelled.app
    /\ consumers' = [consumers EXCEPT ![t] = returned(@)]
    /\ appWg' = appWg - (returned(consumers[t]).dones - consumers[t].dones)
    /\ UNCHANGED <<transforms, pipelineHash, config, store, nextId, msgs, last,
                   bus, loop, execs, portErrs, sets, old, ctl, probe,
                   auxiliary, shutdown, boot, sdk>>

AuxExit ==
    /\ Alive
    /\ auxiliary.pc = "select"
    /\ cancelled.app
    /\ auxiliary' = returned(auxiliary)
    /\ appWg' = appWg - (returned(auxiliary).dones - auxiliary.dones)
    /\ UNCHANGED <<transforms, pipelineHash, config, store, nextId, msgs, last,
                   bus, loop, execs, portErrs, sets, old, ctl, probe,
                   consumers, shutdown, boot, sdk>>

AuxError ==
    /\ Alive
    /\ auxiliary.pc = "select"
    /\ auxiliary.errors < MaxAux
    /\ auxiliary' = [auxiliary EXCEPT !.errors = @ + 1]
    /\ UNCHANGED <<transforms, pipelineHash, config, store, nextId, msgs, last,
                   bus, loop, execs, portErrs, sets, old, ctl, probe,
                   consumers, appWg, shutdown, boot, sdk>>

BackgroundEnvelope(k) ==
    [CorrelationID |-> 900 + k, Payload |-> JsonBytes,
     ContentType |-> ContentTypeJSON]

\* A faulty publisher: the envelope is rebuilt without its correlation-id.
forwardedAnonymous(bg) == [bg EXCEPT !.CorrelationID = 0]

forwarded(bg) == bg

AuxBackground ==
    /\ Alive
    /\ auxiliary.pc = "select"
    /\ auxiliary.background < auxiliary.inbox
    /\ auxiliary' = [auxiliary EXCEPT !.background = @ + 1,
                                      !.pending = @ \cup {auxiliary.background + 1}]
    /\ UNCHANGED <<transforms, pipelineHash, config, store, nextId, msgs, last,
                   bus, loop, execs, portErrs, sets, old, ctl, probe, consumers,
                   appWg, shutdown, boot, sdk>>

BackgroundPublish ==
    \E k \in auxiliary.pending, pubOk \in BOOLEAN :
        LET sent == [topic |-> PublishTopic,
                     envelope |-> forwarded(BackgroundEnvelope(k))]
        IN  /\ Alive
            /\ auxiliary' = [auxiliary EXCEPT
                   !.pending = @ \ {k},
                   !.attempts = Append(@, [k |-> k, topic |-> sent.topic,
                                           envelope |-> sent.envelope,
                                           ok |-> pubOk])]
            /\ bus' = IF pubOk THEN bus \cup {sent} ELSE bus
            /\ UNCHANGED <<transforms, pipelineHash, config, store, nextId, msgs,
                           last, loop, execs, portErrs, sets, old, ctl, probe,
                           consumers, appWg, shutdown, boot, sdk>>

(***************************************************************************)
(* Trigger.Initialize, statement by statement.  Strings are sequences of   *)
(* characters.  strings.TrimSpace and strings.FieldsFunc are Go's; fields  *)
(* are the maximal runs of characters that are not separators, so no field *)
(* is empty.  DeleteEmptyAndTrim trims every field and drops the ones that *)
(* are empty afterwards.                                                   *)
(***************************************************************************)
Chars == {"a", ",", " "}

Strings == UNION { [1..n -> Chars] : n \in 0..MaxChars }

RECURSIVE TrimLeft(_)
TrimLeft(str) ==
    IF str # <<>> /\ Head(str) = " " THEN TrimLeft(Tail(str)) ELSE str

RECURSIVE TrimRight(_)
TrimRight(str) ==
    IF str # <<>> /\ str[Len(str)] = " "
    THEN TrimRight(SubSeq(str, 1, Len(str) - 1))
    ELSE str

TrimSpace(str) == TrimRight(TrimLeft(str))

SplitComma(c) == c = ","

RECURSIVE fieldsFrom(_, _, _, _)
fieldsFrom(str, i, field, fields) ==
    LET closed == IF field = <<>> THEN fields ELSE Append(fields, field)
    IN  IF i > Len(str) THEN closed
        ELSE IF SplitComma(str[i]) THEN fieldsFrom(str, i + 1, <<>>, closed)
        ELSE fieldsFrom(str, i + 1, Append(field, str[i]), fields)

FieldsFunc(str) == fieldsFrom(str, 1, <<>>, <<>>)

RECURSIVE DeleteEmptyAndTrim(_)
DeleteEmptyAndTrim(list) ==
    IF list = <<>> THEN <<>>
    ELSE LET str == TrimSpace(Head(list))
         IN  IF str = <<>> THEN DeleteEmptyAndTrim(Tail(list))
             ELSE <<str>> \o DeleteEmptyAndTrim(Tail(list))

topicsOf(configured) ==
    LET subscribeTopics == TrimSpace(configured)
    IN  IF Len(subscribeTopics) = 0 THEN <<subscribeTopics>>
        ELSE DeleteEmptyAndTrim(FieldsFunc(subscribeTopics))

\* A faulty Initialize: the deferred function is returned beside the error.
returnErrorWithDeferred(b) ==
    [b EXCEPT !.pc = "returned", !.result = "error", !.deferred = TRUE]

returnError(b) == [b EXCEPT !.pc = "returned", !.result = "error"]

NewMessageClient ==
    /\ boot.pc = "start"
    /\ \E ok \in BOOLEAN :
          boot' = IF ok THEN [boot EXCEPT !.pc = "client"] ELSE returnError(boot)
    /\ UNCHANGED <<transforms, pipelineHash, config, store, nextId, msgs, last,
                   bus, loop, execs, portErrs, sets, old, ctl, probe, trg,
                   shutdown, sdk>>

MakeTopics ==
    /\ boot.pc = "client"
    /\ boot' = [boot EXCEPT !.pc = "topics",
                            !.topics = topicsOf(boot.subscribeTopics)]
    /\ UNCHANGED <<transforms, pipelineHash, config, store, nextId, msgs, last,
                   bus, loop, execs, portErrs, sets, old, ctl, probe, trg,
                   shutdown, sdk>>

Connect ==
    /\ boot.pc = "topics"
    /\ \E ok \in BOOLEAN :
          boot' = IF ok THEN [boot EXCEPT !.pc = "connected", !.connected = TRUE]
                  ELSE returnError(boot)
    /\ UNCHANGED <<transforms, pipelineHash, config, store, nextId, msgs, last,
                   bus, loop, execs, portErrs, sets, old, ctl, probe, trg,
                   shutdown, sdk>>

StartConsumer ==
    /\ boot.pc = "connected"
    /\ Len(boot.started) < Len(boot.topics)
    /\ LET topic == boot.topics[Len(boot.started) + 1]
       IN  /\ appWg' = appWg + 1
           /\ consumers' = [t \in DOMAIN consumers \cup {topic} |-> Started]
           /\ boot' = [boot EXCEPT !.started = Append(@, topic)]
    /\ UNCHANGED <<transforms, pipelineHash, config, store, nextId, msgs, last,
                   bus, loop, execs, portErrs, sets, old, ctl, probe,
                   auxiliary, shutdown, sdk>>

StartAuxiliary ==
    /\ boot.pc = "connected"
    /\ Len(boot.started) = Len(boot.topics)
    /\ appWg' = appWg + 1
    /\ auxiliary' = [auxiliary EXCEPT !.pc = "select"]
    /\ boot' = [boot EXCEPT !.pc = "spawned", !.aux = TRUE]
    /\ UNCHANGED <<transforms, pipelineHash, config, store, nextId, msgs, last,
                   bus, loop, execs, portErrs, sets, old, ctl, probe,
                   consumers, shutdown, sdk>>

Subscribe ==
    /\ boot.pc = "spawned"
    /\ \E ok \in BOOLEAN :
          LET called == [boot EXCEPT !.subscribed =
                            Append(@, [topics |-> boot.topics, errors |-> TRUE])]
          IN  boot' = IF ok
                      THEN [called EXCEPT !.pc = "returned", !.result = "ok",
                                          !.deferred = TRUE]
                      ELSE returnError(called)
    /\ UNCHANGED <<transforms, pipelineHash, config, store, nextId, msgs, last,
                   bus, loop, execs, portErrs, sets, old, ctl, probe, trg,
                   shutdown, sdk>>

(***************************************************************************)
(* The trigger factory of the SDK.  Names are sequences of characters,     *)
(* strings.ToUpper maps every lower-case letter to its upper-case letter   *)
(* and leaves the other characters alone.  A custom factory is known by a  *)
(* number; when called it builds its trigger or returns an error.          *)
(***************************************************************************)
LowerCase ==
    <<"a", "b", "c", "d", "e", "f", "g", "h", "i", "j", "k", "l", "m",
      "n", "o", "p", "q", "r", "s", "t", "u", "v", "w", "x", "y", "z">>

UpperCase ==
    <<"A", "B", "C", "D", "E", "F", "G", "H", "I", "J", "K", "L", "M",
      "N", "O", "P", "Q", "R", "S", "T", "U", "V", "W", "X", "Y", "Z">>

ToUpper(str) ==
    LET upper(c) ==
            IF \E i \in 1..Len(LowerCase) : LowerCase[i] = c
            THEN UpperCase[CHOOSE i \in 1..Len(LowerCase) : LowerCase[i] = c]
            ELSE c
    IN  [i \in 1..Len(str) |-> upper(str[i])]

ToLower(str) ==
    LET lower(c) ==
            IF \E i \in 1..Len(UpperCase) : UpperCase[i] = c
            THEN LowerCase[CHOOSE i \in 1..Len(UpperCase) : UpperCase[i] = c]
            ELSE c
    IN  [i \in 1..Len(str) |-> lower(str[i])]

TriggerTypeHTTP == <<"H", "T", "T", "P">>

TriggerTypeMessageBus ==
    <<"E", "D", "G", "E", "X", "-", "M", "E", "S", "S", "A", "G", "E", "B",
      "U", "S">>

TriggerTypeMQTT ==
    <<"E", "X", "T", "E", "R", "N", "A", "L", "-", "M", "Q", "T", "T">>

\* The names a caller registers and a configuration selects: the built-in
\* ones, a custom one and one that only starts like a built-in one, each
\* in upper case, in lower case and in mixed case.
TriggerNames ==
    LET base == { TriggerTypeHTTP, TriggerTypeMessageBus, TriggerTypeMQTT,
                  <<"M", "Y">>, <<"H", "T", "T", "P", "S">> }
        MixedCase(str) ==
            [i \in 1..Len(str) |->
                IF i % 2 = 0 THEN ToLower(str)[i] ELSE ToUpper(str)[i]]
    IN  base \cup { ToLower(n) : n \in base } \cup { MixedCase(n) : n \in base }

Factories == {1, 2}

\* A faulty registry: only the name as written is tested.
isBuiltinAsWritten(name) ==
    name \in {TriggerTypeMessageBus, TriggerTypeHTTP, TriggerTypeMQTT}

isBuiltin(name) ==
    LET nu == ToUpper(name)
    IN  nu = TriggerTypeMessageBus \/ nu = TriggerTypeHTTP \/ nu = TriggerTypeMQTT

RegisterCustomTriggerFactory ==
    \E name \in TriggerNames, factory \in Factories :
        /\ sdk.calls < MaxCalls
        /\ sdk' = [sdk EXCEPT
              !.calls = @ + 1,
              !.registered = [name |-> name, err |-> isBuiltin(name),
                              before |-> sdk.customTriggerFactories,
                              done |-> TRUE],
              !.customTriggerFactories =
                  IF isBuiltin(name) THEN @
                  ELSE [n \in DOMAIN @ \cup {ToUpper(name)} |->
                           IF n = ToUpper(name) THEN factory ELSE @[n]]]
        /\ UNCHANGED <<transforms, pipelineHash, config, store, nextId, msgs,
                       last, bus, loop, execs, portErrs, sets, old, ctl, probe,
                       trg, shutdown, boot>>

\* A faulty setupTrigger: the configured type is compared as written.
triggerTypeAsWritten(type) == type

triggerTypeOf(type) == ToUpper(type)

setupTrigger ==
    \E type \in TriggerNames, factoryOk \in BOOLEAN :
        LET triggerType == triggerTypeOf(type)
            found == triggerType \in DOMAIN sdk.customTriggerFactories
            called == triggerType \notin {TriggerTypeHTTP, TriggerTypeMessageBus,
                                         TriggerTypeMQTT} /\ found
            t == IF triggerType = TriggerTypeHTTP
                 THEN [kind |-> "http", factory |-> 0]
                 ELSE IF triggerType = TriggerTypeMessageBus
                 THEN [kind |-> "messagebus", factory |-> 0]
                 ELSE IF triggerType = TriggerTypeMQTT
                 THEN [kind |-> "mqtt", factory |-> 0]
                 ELSE IF found /\ factoryOk
                 THEN [kind |-> "custom",
                       factory |-> sdk.customTriggerFactories[triggerType]]
                 ELSE NilTrigger
        IN  /\ called \/ factoryOk
            /\ sdk' = [sdk EXCEPT !.setup =
                  [type |-> type, t |-> t, logged |-> t = NilTrigger,
                   factoryOk |-> factoryOk,
                   factories |-> sdk.customTriggerFactories, done |-> TRUE]]
            /\ UNCHANGED <<transforms, pipelineHash, config, store, nextId, msgs,
                           last, bus, loop, execs, portErrs, sets, old, ctl,
                           probe, trg, shutdown, boot>>

\* The transforms a list can hold and the lists of up to MaxLen of them.
Transforms == {FilterT, PostA, PostB}

TransformLists == UNION { [1..n -> Transforms] : n \in 0..MaxLen }

(***************************************************************************)
(* AppFunctionsSDK.SetPipeline: a call without transforms returns the      *)
(* error "No transforms provided to pipeline" and sets nothing; any other  *)
(* call hands the transforms to the runtime as SetTransforms does.         *)
(***************************************************************************)
\* A faulty SetPipeline: every list is accepted.
rejectsNothing(list) == FALSE

rejects(list) == Len(list) = 0

SetPipeline ==
    \E list \in TransformLists :
        /\ Alive
        /\ sets < MaxSets
        /\ sets' = sets + 1
        /\ sdk' = [sdk EXCEPT !.pipeline =
              [list |-> list, err |-> rejects(list), before |-> transforms,
               hash |-> pipelineHash, done |-> TRUE]]
        /\ IF rejects(list)
           THEN UNCHANGED <<transforms, pipelineHash>>
           ELSE /\ transforms' = list
                /\ pipelineHash' = calculatePipelineHash(list)
        /\ UNCHANGED <<config, store, nextId, msgs, last, bus, loop, execs,
                       portErrs, old, ctl, probe, trg, shutdown, boot>>

(***************************************************************************)
(* Configurable.HTTPExport.  The parameters are a map from names to        *)
(* strings: a name that is present has a value (possibly blank), a name    *)
(* that is absent reads as the empty string with ok false.  Strings are    *)
(* sequences of characters.  processHttpExportParameters reads the         *)
(* required names, parses the optional booleans and trims the rest;        *)
(* HTTPExport logs its error and returns nil, or builds the sender and     *)
(* returns its HTTPPost or HTTPPut by the lower-cased method.              *)
(***************************************************************************)
Absent == [ok |-> FALSE, value |-> <<>>]

Present(str) == [ok |-> TRUE, value |-> str]

ExportMethodPost == <<"p", "o", "s", "t">>

ExportMethodPut == <<"p", "u", "t">>

ExportParameterMaps ==
    LET methods == { Absent, Present(ExportMethodPost),
                     Present(<<"P", "U", "T">>), Present(<<"P", "o", "s", "t">>),
                     Present(<<"g", "e", "t">>), Present(<<>>) }
        urls == { Absent, Present(<<"u">>), Present(<<" ">>) }
        mimeTypes == { Absent, Present(<<"j">>) }
        bools == { Absent, Present(<<"T", "r", "u", "e">>),
                   Present(<<"b", "o", "g", "u", "s">>) }
        names == { Absent, Present(<<"s">>), Present(<<" ">>) }
    IN  [method : methods, url : urls, mimetype : mimeTypes,
         persistonerror : bools, continueonsenderror : bools,
         returninputdata : bools,
         headername : names, secretpath : names, secretname : names]

\* strconv.ParseBool returns no error for these strings only.
ParseBool(str) ==
    str \in { <<"1">>, <<"t">>, <<"T">>, <<"T", "R", "U", "E">>,
              <<"t", "r", "u", "e">>, <<"T", "r", "u", "e">>,
              <<"0">>, <<"f">>, <<"F">>, <<"F", "A", "L", "S", "E">>,
              <<"f", "a", "l", "s", "e">>, <<"F", "a", "l", "s", "e">> }

processHttpExportParameters(parameters) ==
    LET headerName == TrimSpace(parameters.headername.value)
        secretPath == TrimSpace(parameters.secretpath.value)
        secretName == TrimSpace(parameters.secretname.value)
        err ==
            \/ ~parameters.method.ok
            \/ ~parameters.url.ok
            \/ ~parameters.mimetype.ok
            \/ parameters.persistonerror.ok
                  /\ ~ParseBool(parameters.persistonerror.value)
            \/ parameters.continueonsenderror.ok
                  /\ ~ParseBool(parameters.continueonsenderror.value)
            \/ parameters.returninputdata.ok
                  /\ ~ParseBool(parameters.returninputdata.value)
            \/ Len(headerName) = 0 /\ Len(secretPath) # 0 /\ Len(secretName) # 0
            \/ Len(secretPath) = 0 /\ Len(headerName) # 0 /\ Len(secretName) # 0
            \/ Len(secretName) = 0 /\ Len(secretPath) # 0 /\ Len(headerName) # 0
    IN  [err |-> err, method |-> parameters.method.value,
         url |-> TrimSpace(parameters.url.value),
         mimeType |-> TrimSpace(parameters.mimetype.value),
         headerName |-> headerName, secretPath |-> secretPath,
         secretName |-> secretName]

NilTransform == [function |-> "nil", sender |-> "nil"]

HTTPExport ==
    LET params == processHttpExportParameters(sdk.export.parameters)
        sender == IF Len(params.secretPath) # 0
                  THEN "NewHTTPSenderWithSecretHeader"
                  ELSE "NewHTTPSender"
        transform ==
            IF params.err THEN NilTransform
            ELSE IF ToLower(params.method) = ExportMethodPost
            THEN [function |-> "HTTPPost", sender |-> sender]
            ELSE IF ToLower(params.method) = ExportMethodPut
            THEN [function |-> "HTTPPut", sender |-> sender]
            ELSE NilTransform
    IN  /\ sdk.export.pc = "call"
        /\ sdk' = [sdk EXCEPT !.export.transform = transform,
                              !.export.logged = transform = NilTransform,
                              !.export.pc = "returned"]
        /\ UNCHANGED <<transforms, pipelineHash, config, store, nextId, msgs,
                       last, bus, loop, execs, portErrs, sets, old, ctl,
                       probe, trg, shutdown, boot>>

(***************************************************************************)
(* The shutdown sequence of the service once the application context is    *)
(* cancelled: the deferred function Initialize returned disconnects the    *)
(* client, then the application wait group is joined; Wait returns when    *)
(* the counter is zero.                                                    *)
(***************************************************************************)
Disconnect ==
    /\ Alive
    /\ cancelled.app
    /\ shutdown = "running"
    /\ boot = Initialized
    /\ sdk = NewSDK
    /\ shutdown' = "disconnected"
    /\ UNCHANGED <<transforms, pipelineHash, config, store, nextId, msgs, last,
                   bus, loop, execs, portErrs, sets, old, ctl, probe, trg,
                   boot, sdk>>

Join ==
    /\ Alive
    /\ shutdown = "disconnected"
    /\ appWg = 0
    /\ shutdown' = "joined"
    /\ UNCHANGED <<transforms, pipelineHash, config, store, nextId, msgs, last,
                   bus, loop, execs, portErrs, sets, old, ctl, probe, trg,
                   boot, sdk>>

(***************************************************************************)
(* The retry-loop workers.  loop is the worker of the latest enable, old   *)
(* the worker of the enable before it, whose enabled context is cancelled. *)
(* A worker sees Done when the application context or its own enabled      *)
(* context is cancelled.                                                   *)
(***************************************************************************)
Workers == {"current", "previous"}

LoopOf(w) == IF w = "current" THEN loop ELSE old

Becomes(w, l) ==
    IF w = "current" THEN loop' = l /\ old' = old
    ELSE old' = l /\ loop' = loop

\* A faulty loop: the select has no case for the enabled context.
seesDoneOfAppOnly(w) == cancelled.app

seesDone(w) ==
    cancelled.app \/ (IF w = "current" THEN cancelled.enabled ELSE TRUE)

InTick(l) == l.pc \in {"check", "exec", "apply"}

(***************************************************************************)
(* storeForwardInfo.startStoreAndForwardRetryLoop up to the loop: started  *)
(* when store-and-forward is enabled; a negative MaxRetryCount becomes 1.  *)
(***************************************************************************)
\* A faulty loop: a negative bound is taken as no bound.
coerceToUnbounded(n) == IF n < 0 THEN 0 ELSE n

coerceMaxRetryCount(n) == IF n < 0 THEN 1 ELSE n

startStoreAndForwardRetryLoop ==
    /\ Alive
    /\ loop.pc = "init"
    /\ config.Enabled
    /\ config' = [config EXCEPT !.MaxRetryCount = coerceMaxRetryCount(@)]
    /\ loop' = [loop EXCEPT !.pc = "wait", !.configured = config.MaxRetryCount]
    /\ UNCHANGED <<transforms, pipelineHash, store, nextId, msgs, last, bus,
                   execs, portErrs, sets, old, ctl, probe, trg, shutdown,
                   boot, sdk>>

(***************************************************************************)
(* The select of the loop.  With no context cancelled the timer case runs  *)
(* a tick.  With a context cancelled the worker exits; when the context    *)
(* was cancelled while the worker waited, the timer may have fired as well *)
(* and the select may still pick the tick once (late).                     *)
(***************************************************************************)
mayTick(w) == ~seesDone(w) \/ LoopOf(w).late

mayExit(w) == seesDone(w)

ExitBy(w) ==
    /\ Alive
    /\ LoopOf(w).pc = "wait"
    /\ mayExit(w)
    /\ Becomes(w, [IdleLoop EXCEPT !.pc = "exited"])
    /\ UNCHANGED <<transforms, pipelineHash, config, store, nextId, msgs, last,
                   bus, execs, portErrs, sets, ctl, probe, trg, shutdown,
                   boot, sdk>>

(***************************************************************************)
(* storeForwardInfo.retryStoredData, first half: a tick retrieves the      *)
(* objects of the service, in any order.  An error or an empty result ends *)
(* the tick at once.                                                       *)
(***************************************************************************)
RetrieveBy(w) ==
    /\ Alive
    /\ LoopOf(w).pc = "wait"
    /\ mayTick(w)
    /\ \A o \in store : execs[o.ID] < MaxExecs
    /\ \E ok \in BOOLEAN :
         LET found == IF ok THEN RetrieveFromStore(store, serviceKey) ELSE {}
         IN  /\ found # {}
             /\ \E items \in PermsOf(found) :
                  Becomes(w, [IdleLoop EXCEPT !.pc = "check", !.items = items,
                                              !.configured = LoopOf(w).configured])
    /\ UNCHANGED <<transforms, pipelineHash, config, store, nextId, msgs, last,
                   bus, execs, portErrs, sets, ctl, probe, trg, shutdown,
                   boot, sdk>>

Retrieve == RetrieveBy("current")

(***************************************************************************)
(* retryStoredData when RetrieveFromStore returns an error: the error is   *)
(* logged and the tick returns to the select of the loop.                  *)
(***************************************************************************)
\* A faulty tick: the error is logged and the tick goes on with the items.
onRetrieveErrorGoesOn(l, items) ==
    [IdleLoop EXCEPT !.pc = IF items = <<>> THEN "wait" ELSE "check",
                     !.items = items, !.configured = l.configured,
                     !.failed = TRUE]

onRetrieveError(l, items) ==
    [IdleLoop EXCEPT !.pc = "wait", !.configured = l.configured,
                     !.failed = TRUE]

RetrieveError ==
    /\ Alive
    /\ loop.pc = "wait"
    /\ mayTick("current")
    /\ \A o \in store : execs[o.ID] < MaxExecs
    /\ ~loop.failed
    /\ \E items \in PermsOf(RetrieveFromStore(store, serviceKey)) :
          loop' = onRetrieveError(loop, items)
    /\ UNCHANGED <<transforms, pipelineHash, config, store, nextId, msgs, last,
                   bus, execs, portErrs, sets, old, ctl, probe, trg, shutdown,
                   boot, sdk>>

(***************************************************************************)
(* storeForwardInfo.retryExportFunction: the pipeline is run on the        *)
(* payload of the item from its position on, in a context built for the    *)
(* item.                                                                   *)
(***************************************************************************)
\* A faulty loop: the item is run in the context of the last message.
retryInLastContext(item, list, outs) ==
    executePipeline(item.Payload,
                    [last.ctx EXCEPT !.CorrelationID = item.CorrelationID],
                    list, item.PipelinePosition, outs, <<>>)

\* A faulty loop: the stage that failed is skipped.
retryAfterPosition(item, list, outs) ==
    executePipeline(item.Payload, NewContext(item.CorrelationID), list,
                    item.PipelinePosition + 1, outs, <<>>)

retryExportFunction(item, list, outs) ==
    executePipeline(item.Payload, NewContext(item.CorrelationID), list,
                    item.PipelinePosition, outs, <<>>)

(***************************************************************************)
(* storeForwardInfo.processRetryItems, one item of the loop.  Check        *)
(* compares the item's version with the hash of the transforms now set; an *)
(* item of another pipeline goes to the removals unexecuted.               *)
(***************************************************************************)
\* A faulty loop: the version of the item is not compared.
validVersionAlways(item, list) == TRUE

validVersion(item, list) == item.Version = calculatePipelineHash(list)

advance(l) ==
    [l EXCEPT !.i = @ + 1,
              !.pc = IF l.i + 1 > Len(l.items) THEN "apply" ELSE "check"]

CheckBy(w) ==
    /\ Alive
    /\ LoopOf(w).pc = "check"
    /\ LET l == LoopOf(w)
           item == l.items[l.i]
           hash == calculatePipelineHash(transforms)
       IN  Becomes(w,
             IF validVersion(item, transforms)
             THEN [l EXCEPT !.pc = "exec", !.hash = hash, !.list = transforms]
             ELSE advance([l EXCEPT
                    !.itemsToRemove = Append(@, item),
                    !.hash = hash,
                    !.log = Append(@, [item |-> item, hash |-> hash,
                                       ran |-> FALSE, success |-> FALSE,
                                       invoked |-> 0, sameList |-> TRUE,
                                       own |-> TRUE,
                                       resumed |-> [at |-> -1, input |-> Nil,
                                                    correlation |-> 0,
                                                    inOrder |-> TRUE]])]))
    /\ UNCHANGED <<transforms, pipelineHash, config, store, nextId, msgs, last,
                   bus, execs, portErrs, sets, ctl, probe, trg, shutdown,
                   boot, sdk>>

Check == CheckBy("current")

(***************************************************************************)
(* The loop keeps the list whose hash Check computed until Exec has read    *)
(* the transforms again, and the log tells whether both were the same.     *)
(* The log keeps of a re-execution the position and the input of its first *)
(* invocation, the correlation-id of its context, and whether the          *)
(* invocations went through consecutive positions, and whether the         *)
(* context it ended with holds what its own stages wrote into a new one    *)
(* and nothing else.                                                       *)
(* Exec re-executes a valid item (retryExportFunction: a fresh context     *)
(* with the item's correlation-id, the transforms now set, the stored      *)
(* position and payload) and files it: a success under the removals, a     *)
(* failure with its retry count raised under the updates, or under the     *)
(* removals once the count reaches a positive MaxRetryCount.               *)
(***************************************************************************)
\* A faulty loop: a failure is counted twice.
incrementedTwice(item) == [item EXCEPT !.RetryCount = @ + 2]

incremented(item) == [item EXCEPT !.RetryCount = @ + 1]

\* Faulty loops: the bound is taken one attempt late; zero is taken as a
\* bound like any other.
keepsForUpdateLate(maxRetryCount, retryCount) ==
    maxRetryCount = 0 \/ retryCount <= maxRetryCount

keepsForUpdateBounded(maxRetryCount, retryCount) ==
    retryCount < maxRetryCount

keepsForUpdate(maxRetryCount, retryCount) ==
    maxRetryCount = 0 \/ retryCount < maxRetryCount

\* A faulty loop: a failed item is kept whatever its count.
removesItemOnSuccess(success, maxRetryCount, retryCount) == success

\* A faulty loop: a success is not removed.
removesItemOnExhaustion(success, maxRetryCount, retryCount) ==
    ~success /\ ~keepsForUpdate(maxRetryCount, retryCount)

removesItem(success, maxRetryCount, retryCount) ==
    success \/ ~keepsForUpdate(maxRetryCount, retryCount)

ExecBy(w) ==
    /\ Alive
    /\ LoopOf(w).pc = "exec"
    /\ LET l == LoopOf(w)
           item == l.items[l.i]
           list == transforms
       IN  \E outs \in OutcomeRuns(Len(list) - item.PipelinePosition) :
            \E r \in { retryExportFunction(item, list, outs) } :
             LET success == ~r.err
                 item1 == IF success THEN item ELSE incremented(item)
                 entry == [item |-> item, hash |-> l.hash, ran |-> TRUE,
                           success |-> success, invoked |-> Len(r.calls),
                           sameList |-> l.list = list,
                           own |-> r.ctx =
                               executePipeline(item.Payload,
                                   NewContext(item.CorrelationID), list,
                                   item.PipelinePosition, outs, <<>>).ctx,
                           resumed |->
                             [at |-> IF r.calls = <<>> THEN -1
                                     ELSE r.calls[1].position,
                              input |-> IF r.calls = <<>> THEN Nil
                                        ELSE r.calls[1].input,
                              correlation |-> r.ctx.CorrelationID,
                              inOrder |-> \A i \in 1..Len(r.calls) :
                                  r.calls[i].position
                                      = r.calls[1].position + i - 1]]
             IN  \E storeOk \in (IF r.persist /\ config.Enabled THEN BOOLEAN ELSE {TRUE}) :
                   LET adds == r.persist /\ storesItem(storeOk)
                   IN  /\ adds => nextId <= MaxStored
                       /\ store' = IF r.persist
                                   THEN storeForLaterRetry(r.ctx.RetryData, r.ctx, r.at, storeOk)
                                   ELSE store
                       /\ nextId' = IF adds THEN nextId + 1 ELSE nextId
                       /\ execs' = [execs EXCEPT ![item.ID] = @ + 1]
                       /\ Becomes(w,
                            IF removesItem(success, config.MaxRetryCount, item1.RetryCount)
                            THEN advance([l EXCEPT
                                   !.itemsToRemove = Append(@, item1),
                                   !.log = Append(@, entry), !.list = <<>>])
                            ELSE advance([l EXCEPT
                                   !.itemsToUpdate = Append(@, item1),
                                   !.log = Append(@, entry), !.list = <<>>]))
    /\ UNCHANGED <<transforms, pipelineHash, config, msgs, last, bus, portErrs,
                   sets, ctl, probe, trg, shutdown, boot, sdk>>

Exec == ExecBy("current")

(***************************************************************************)
(* storeForwardInfo.retryStoredData, second half: RemoveFromStore for      *)
(* every removal, then Update for every update; a call that returns an     *)
(* error is logged and leaves the object as it was.                        *)
(***************************************************************************)
RECURSIVE removeAll(_, _, _, _)
removeAll(db, items, i, errs) ==
    IF i > Len(items) THEN db
    ELSE removeAll(IF items[i].ID \in errs THEN db ELSE RemoveFromStore(db, items[i]),
                   items, i + 1, errs)

RECURSIVE updateAll(_, _, _, _)
updateAll(db, items, i, errs) ==
    IF i > Len(items) THEN db
    ELSE updateAll(IF items[i].ID \in errs THEN db ELSE Update(db, items[i]),
                   items, i + 1, errs)

ApplyBy(w) ==
    /\ Alive
    /\ LoopOf(w).pc = "apply"
    /\ LET l == LoopOf(w)
       IN  \E removeErr \in SUBSET IdsOf(Range(l.itemsToRemove)),
              updateErr \in SUBSET IdsOf(Range(l.itemsToUpdate)) :
             /\ store' = updateAll(removeAll(store, l.itemsToRemove, 1, removeErr),
                                   l.itemsToUpdate, 1, updateErr)
             /\ Becomes(w, [l EXCEPT !.pc = "wait", !.removeErr = removeErr,
                                     !.updateErr = updateErr, !.applied = TRUE])
             /\ portErrs' = portErrs \cup removeErr \cup updateErr
    /\ UNCHANGED <<transforms, pipelineHash, config, nextId, msgs, last, bus,
                   execs, sets, ctl, probe, trg, shutdown, boot, sdk>>

Apply == ApplyBy("current")

(***************************************************************************)
(* The contexts of the loop.  The application context is cancelled once,   *)
(* at shutdown.  A configuration change that disables store-and-forward    *)
(* cancels the enabled context of the running loop; one that enables it    *)
(* again starts a fresh loop under a fresh enabled context.  The loop      *)
(* takes no wait group, so nothing waits for the loop of the cancelled     *)
(* context to leave its tick.                                              *)
(***************************************************************************)
racing(w) ==
    IF LoopOf(w).pc = "wait" /\ ~seesDone(w)
    THEN [LoopOf(w) EXCEPT !.late = TRUE]
    ELSE LoopOf(w)

CancelApp ==
    /\ Alive
    /\ ~cancelled.app
    /\ cancelled' = [cancelled EXCEPT !.app = TRUE]
    /\ loop' = racing("current")
    /\ old' = racing("previous")
    /\ UNCHANGED <<transforms, pipelineHash, config, store, nextId, msgs, last,
                   bus, execs, portErrs, sets, enables, probe, trg, shutdown,
                   boot, sdk>>

Disable ==
    /\ Alive
    /\ config.Enabled
    /\ loop.pc # "init"
    /\ ~cancelled.enabled
    /\ config' = [config EXCEPT !.Enabled = FALSE]
    /\ cancelled' = [cancelled EXCEPT !.enabled = TRUE]
    /\ loop' = racing("current")
    /\ UNCHANGED <<transforms, pipelineHash, store, nextId, msgs, last, bus,
                   execs, portErrs, sets, old, enables, probe, trg, shutdown,
                   boot, sdk>>

Enable ==
    /\ Alive
    /\ ~config.Enabled
    /\ ~cancelled.app
    /\ enables < MaxEnables
    /\ old.pc \in {"none", "exited"}
    /\ config' = [config EXCEPT !.Enabled = TRUE]
    /\ cancelled' = [cancelled EXCEPT !.enabled = FALSE]
    /\ old' = IF loop.pc = "init" THEN old ELSE loop
    /\ loop' = IdleLoop
    /\ enables' = enables + 1
    /\ UNCHANGED <<transforms, pipelineHash, store, nextId, msgs, last, bus,
                   execs, portErrs, sets, probe, trg, shutdown, boot, sdk>>

(***************************************************************************)
(* The whole service.                                                      *)
(***************************************************************************)
Next ==
    \/ SetTransforms
    \/ Receive
    \/ Run
    \/ startStoreAndForwardRetryLoop
    \/ Retrieve
    \/ Check
    \/ Exec
    \/ Apply
    \/ ExitBy("current")
    \/ RetrieveBy("previous")
    \/ CheckBy("previous")
    \/ ExecBy("previous")
    \/ ApplyBy("previous")
    \/ ExitBy("previous")
    \/ CancelApp
    \/ Disable
    \/ Enable
    \/ \E t \in Topics : ConsumerExit(t)
    \/ AuxExit
    \/ AuxError
    \/ AuxBackground
    \/ BackgroundPublish
    \/ Disconnect
    \/ Join
    \/ NewMessageClient
    \/ MakeTopics
    \/ Connect
    \/ StartConsumer
    \/ StartAuxiliary
    \/ Subscribe
    \/ RegisterCustomTriggerFactory
    \/ setupTrigger
    \/ SetPipeline
    \/ HTTPExport
    \/ RetrieveError

Spec == Init /\ [][Next]_vars

(***************************************************************************)
(* The pipeline side alone: messages through the runtime, the retry loop   *)
(* not started.                                                            *)
(***************************************************************************)
InitPipeline ==
    /\ Init
    /\ config.MaxRetryCount = 0
    /\ DOMAIN consumers = {""}

NextPipeline ==
    \/ SetTransforms
    \/ Receive
    \/ Run

SpecPipeline == InitPipeline /\ [][NextPipeline]_vars

(***************************************************************************)
(* The retry side alone: the service restarted over a store that holds     *)
(* what storeForLaterRetry left there in an earlier run, the pipeline set, *)
(* no message in flight.                                                   *)
(***************************************************************************)
StoredVersions == { calculatePipelineHash(p) : p \in Pipelines }

StoredPositions == {0, 1}

SeedItem(id, version, position) ==
    [NewStoredObject(serviceKey, 7, position, version)
        EXCEPT !.ID = id, !.CorrelationID = CorrelationOf(id)]

SeedStores ==
    { { SeedItem(1, v, p) } : v \in StoredVersions, p \in StoredPositions }

InitRetry ==
    /\ transforms \in Pipelines
    /\ pipelineHash = calculatePipelineHash(transforms)
    /\ config \in [Enabled : {TRUE}, MaxRetryCount : MaxRetryCounts]
    /\ store \in SeedStores
    /\ nextId = Cardinality(store) + 1
    /\ msgs = [m \in Msgs |-> NewMsg]
    /\ last = NoRun
    /\ bus = {}
    /\ loop = IdleLoop
    /\ execs = [id \in Ids |-> 0]
    /\ portErrs = {}
    /\ sets = 1
    /\ old = NoLoop
    /\ cancelled = [app |-> FALSE, enabled |-> FALSE]
    /\ enables = 0
    /\ probe = NoProbe
    /\ consumers = [t \in {""} |-> Started]
    /\ auxiliary = StartedAux(MaxAux)
    /\ appWg = 2
    /\ shutdown = "running"
    /\ boot = Initialized
    /\ sdk = NewSDK

NextRetry ==
    \/ SetTransforms
    \/ startStoreAndForwardRetryLoop
    \/ Retrieve
    \/ Check
    \/ Exec
    \/ Apply

SpecRetry == InitRetry /\ [][NextRetry]_vars

(***************************************************************************)
(* The engine at work: the pipeline set and store-and-forward enabled, the *)
(* store holding an object of this service and possibly one of another     *)
(* service, the last inbound message processed by the trigger's worker     *)
(* while the retry loop ticks (the earlier ones ended at the decoder, with *)
(* a target that is not a pointer), and RetrieveFromStore failing at       *)
(* times.                                                                  *)
(***************************************************************************)
InitEngine ==
    /\ transforms = <<FilterT, PostA>>
    /\ pipelineHash = calculatePipelineHash(transforms)
    /\ config = [Enabled |-> TRUE, MaxRetryCount |-> 0]
    /\ \E foreign \in BOOLEAN :
          store = { SeedItem(1, pipelineHash, 1) } \cup
                  (IF foreign
                   THEN { [SeedItem(2, pipelineHash, 1)
                             EXCEPT !.AppServiceKey = "AnotherService"] }
                   ELSE {})
    /\ nextId = Cardinality(store) + 1
    /\ msgs = [m \in Msgs |-> IF m < MaxMsgs
                               THEN [NewMsg EXCEPT !.pc = "done", !.topic = ""]
                               ELSE NewMsg]
    /\ last = [NoRun EXCEPT !.m = MaxMsgs - 1, !.topic = "", !.err = TRUE,
                            !.kind = "decode",
                            !.why = "target-not-addressable",
                            !.ctx = NewContext(CorrelationOf(MaxMsgs - 1))]
    /\ bus = {}
    /\ loop = IdleLoop
    /\ execs = [id \in Ids |-> 0]
    /\ portErrs = {}
    /\ sets = 1
    /\ old = NoLoop
    /\ cancelled = [app |-> FALSE, enabled |-> FALSE]
    /\ enables = 0
    /\ probe = NoProbe
    /\ consumers = [t \in {""} |-> Started]
    /\ auxiliary = StartedAux(MaxAux)
    /\ appWg = 2
    /\ shutdown = "running"
    /\ boot = Initialized
    /\ sdk = NewSDK

NextEngine ==
    \/ Receive
    \/ Run
    \/ startStoreAndForwardRetryLoop
    \/ Retrieve
    \/ RetrieveError
    \/ Check
    \/ Exec
    \/ Apply

SpecEngine == InitEngine /\ [][NextEngine]_vars

(***************************************************************************)
(* The life of the retry loops: one pipeline, one stored item of that      *)
(* pipeline, the contexts cancelled and store-and-forward disabled and     *)
(* enabled again while the loops run.  Every worker that can take a step   *)
(* eventually takes one.                                                   *)
(***************************************************************************)
InitLoops ==
    /\ InitRetry
    /\ transforms = <<FilterT, PostA>>
    /\ config.MaxRetryCount = 1
    /\ \A o \in store : o.Version = pipelineHash /\ o.PipelinePosition = 1

NextLoops ==
    \/ startStoreAndForwardRetryLoop
    \/ Retrieve
    \/ Check
    \/ Exec
    \/ Apply
    \/ ExitBy("current")
    \/ RetrieveBy("previous")
    \/ CheckBy("previous")
    \/ ExecBy("previous")
    \/ ApplyBy("previous")
    \/ ExitBy("previous")
    \/ CancelApp
    \/ Disable
    \/ Enable

SpecLoops == InitLoops /\ [][NextLoops]_vars

Scheduled(w) ==
    /\ WF_vars(CheckBy(w) \/ ExecBy(w) \/ ApplyBy(w))
    /\ WF_vars(ExitBy(w))

SpecLoopsFair ==
    /\ SpecLoops
    /\ WF_vars(startStoreAndForwardRetryLoop)
    /\ Scheduled("current")
    /\ Scheduled("previous")

(***************************************************************************)
(* calculatePipelineHash on its own: two transform lists are drawn, the    *)
(* hash of each is computed.  The lists range over every sequence of up    *)
(* to MaxLen transforms, so that one is the other with a transform         *)
(* substituted, added, removed or moved.                                   *)
(***************************************************************************)
InitHash ==
    /\ transforms = <<>>
    /\ pipelineHash = ""
    /\ config = [Enabled |-> FALSE, MaxRetryCount |-> 0]
    /\ store = {}
    /\ nextId = 1
    /\ msgs = [m \in Msgs |-> NewMsg]
    /\ last = NoRun
    /\ bus = {}
    /\ loop = IdleLoop
    /\ execs = [id \in Ids |-> 0]
    /\ portErrs = {}
    /\ sets = 0
    /\ old = NoLoop
    /\ cancelled = [app |-> FALSE, enabled |-> FALSE]
    /\ enables = 0
    /\ probe \in [a : TransformLists, b : TransformLists, ha : {""}, hb : {""},
                  hashed : {FALSE}]
    /\ consumers = [t \in {""} |-> Started]
    /\ auxiliary = StartedAux(MaxAux)
    /\ appWg = 2
    /\ shutdown = "running"
    /\ boot = Initialized
    /\ sdk = NewSDK

Hash ==
    /\ ~probe.hashed
    /\ probe' = [probe EXCEPT !.ha = calculatePipelineHash(probe.a),
                              !.hb = calculatePipelineHash(probe.b),
                              !.hashed = TRUE]
    /\ UNCHANGED <<transforms, pipelineHash, config, store, nextId, msgs, last,
                   bus, loop, execs, portErrs, sets, old, ctl, trg, shutdown,
                   boot, sdk>>

NextHash == Hash

SpecHash == InitHash /\ [][NextHash]_vars

(***************************************************************************)
(* The message-bus trigger alone: both topics subscribed, a pipeline of    *)
(* one transform set, messages received and processed while the            *)
(* application context is cancelled and the goroutines return.  A          *)
(* goroutine whose select has the Done case ready eventually takes it, and *)
(* a started processMessage eventually finishes.                           *)
(***************************************************************************)
InitTrigger ==
    /\ transforms = <<FilterT>>
    /\ pipelineHash = calculatePipelineHash(transforms)
    /\ config = [Enabled |-> FALSE, MaxRetryCount |-> 0]
    /\ store = {}
    /\ nextId = 1
    /\ msgs = [m \in Msgs |-> NewMsg]
    /\ last = NoRun
    /\ bus = {}
    /\ loop = IdleLoop
    /\ execs = [id \in Ids |-> 0]
    /\ portErrs = {}
    /\ sets = 1
    /\ old = NoLoop
    /\ cancelled = [app |-> FALSE, enabled |-> FALSE]
    /\ enables = 0
    /\ probe = NoProbe
    /\ consumers = [t \in Topics |-> Started]
    /\ auxiliary = StartedAux(MaxAux)
    /\ appWg = Cardinality(Topics) + 1
    /\ shutdown = "running"
    /\ boot = Initialized
    /\ sdk = NewSDK

NextTrigger ==
    \/ Receive
    \/ Run
    \/ CancelApp
    \/ \E t \in Topics : ConsumerExit(t)
    \/ AuxExit
    \/ AuxError
    \/ AuxBackground
    \/ BackgroundPublish

SpecTrigger == InitTrigger /\ [][NextTrigger]_vars

SpecTriggerFair ==
    /\ SpecTrigger
    /\ \A t \in Topics : WF_vars(ConsumerExit(t))
    /\ WF_vars(AuxExit)
    /\ WF_vars(Run)

(***************************************************************************)
(* The trigger with the shutdown sequence of the service.                  *)
(***************************************************************************)
NextShutdown ==
    \/ NextTrigger
    \/ Disconnect
    \/ Join

SpecShutdown == InitTrigger /\ [][NextShutdown]_vars

(***************************************************************************)
(* The trigger while the application puts MaxBackground envelopes on the   *)
(* background channel.                                                     *)
(***************************************************************************)
InitBackground ==
    /\ transforms = <<FilterT>>
    /\ pipelineHash = calculatePipelineHash(transforms)
    /\ config = [Enabled |-> FALSE, MaxRetryCount |-> 0]
    /\ store = {}
    /\ nextId = 1
    /\ msgs = [m \in Msgs |-> NewMsg]
    /\ last = NoRun
    /\ bus = {}
    /\ loop = IdleLoop
    /\ execs = [id \in Ids |-> 0]
    /\ portErrs = {}
    /\ sets = 1
    /\ old = NoLoop
    /\ cancelled = [app |-> FALSE, enabled |-> FALSE]
    /\ enables = 0
    /\ probe = NoProbe
    /\ consumers = [t \in {""} |-> Started]
    /\ auxiliary = StartedAux(MaxBackground)
    /\ appWg = 2
    /\ shutdown = "running"
    /\ boot = Initialized
    /\ sdk = NewSDK

SpecBackground == InitBackground /\ [][NextTrigger]_vars

(***************************************************************************)
(* Trigger.Initialize alone, for every SubscribeTopics string of up to     *)
(* MaxChars characters: no goroutine is started yet, the wait group is     *)
(* empty.                                                                  *)
(***************************************************************************)
InitInitialize ==
    /\ transforms = <<FilterT>>
    /\ pipelineHash = calculatePipelineHash(transforms)
    /\ config = [Enabled |-> FALSE, MaxRetryCount |-> 0]
    /\ store = {}
    /\ nextId = 1
    /\ msgs = [m \in Msgs |-> NewMsg]
    /\ last = NoRun
    /\ bus = {}
    /\ loop = IdleLoop
    /\ execs = [id \in Ids |-> 0]
    /\ portErrs = {}
    /\ sets = 1
    /\ old = NoLoop
    /\ cancelled = [app |-> FALSE, enabled |-> FALSE]
    /\ enables = 0
    /\ probe = NoProbe
    /\ consumers = [t \in {} |-> Started]
    /\ auxiliary = [StartedAux(0) EXCEPT !.pc = "none"]
    /\ appWg = 0
    /\ shutdown = "running"
    /\ \E str \in Strings : boot = [NotInitialized EXCEPT !.subscribeTopics = str]
    /\ sdk = NewSDK

NextInitialize ==
    \/ NewMessageClient
    \/ MakeTopics
    \/ Connect
    \/ StartConsumer
    \/ StartAuxiliary
    \/ Subscribe

SpecInitialize == InitInitialize /\ [][NextInitialize]_vars

(***************************************************************************)
(* The trigger factory alone: custom factories are registered and a        *)
(* trigger is set up for a configured type, over TriggerNames.             *)
(***************************************************************************)
(***************************************************************************)
(* SetPipeline alone, called over TransformLists on a new SDK and then on  *)
(* one whose pipeline is set.                                              *)
(***************************************************************************)
NextSetPipeline == SetPipeline

SpecSetPipeline == InitPipeline /\ [][NextSetPipeline]_vars

NextFactory ==
    \/ RegisterCustomTriggerFactory
    \/ setupTrigger

SpecFactory == InitTrigger /\ [][NextFactory]_vars

(***************************************************************************)
(* HTTPExport alone: one call for every parameter map of                   *)
(* ExportParameterMaps.                                                    *)
(***************************************************************************)
InitExport ==
    /\ transforms = <<>>
    /\ pipelineHash = ""
    /\ config = [Enabled |-> FALSE, MaxRetryCount |-> 0]
    /\ store = {}
    /\ nextId = 1
    /\ msgs = [m \in Msgs |-> NewMsg]
    /\ last = NoRun
    /\ bus = {}
    /\ loop = IdleLoop
    /\ execs = [id \in Ids |-> 0]
    /\ portErrs = {}
    /\ sets = 0
    /\ old = NoLoop
    /\ cancelled = [app |-> FALSE, enabled |-> FALSE]
    /\ enables = 0
    /\ probe = NoProbe
    /\ consumers = [t \in {} |-> Started]
    /\ auxiliary = [StartedAux(0) EXCEPT !.pc = "none"]
    /\ appWg = 0
    /\ shutdown = "running"
    /\ boot = NotInitialized
    /\ \E parameters \in ExportParameterMaps :
          sdk = [NewSDK EXCEPT !.export.parameters = parameters,
                               !.export.pc = "call"]

NextExport == HTTPExport

SpecExport == InitExport /\ [][NextExport]_vars

(***************************************************************************)
(* Properties of one message driven through the pipeline.  They are stated *)
(* over last, the record of the processMessage that finished last.         *)
(***************************************************************************)
Ran == last.m # 0 /\ last.decoded

AllContinue == \A i \in 1..Len(last.calls) : last.calls[i].cont

StageError == Ran /\ last.kind = "stage-error"

AddedAsAsked ==
    \E o \in last.added :
        /\ last.added = {o}
        /\ o.Payload = last.ctx.RetryData
        /\ o.PipelinePosition = last.at
        /\ o.RetryCount = 0
        /\ o.AppServiceKey = serviceKey
        /\ o.CorrelationID = last.ctx.CorrelationID
        /\ o.Version = last.hash

\* C1: when every stage of a message's pipeline of n transforms continues,
\* the stages are invoked exactly once each in index order 0..n-1, stage 0
\* on the decoded input and every later stage on the output of the stage
\* before it.
C1_StagesInOrderChained ==
    (Ran /\ AllContinue) =>
        /\ Len(last.calls) = Len(last.list)
        /\ \A i \in 1..Len(last.calls) :
             /\ last.calls[i].position = i - 1
             /\ last.calls[i].input =
                  IF i = 1 THEN last.input ELSE last.calls[i - 1].output

C1_Witness ==
    /\ Ran /\ AllContinue
    /\ Len(last.list) = 3
    /\ Len(last.calls) = 3
    /\ last.calls[3].input # last.input

\* C2: when stage i returns continue=false with a result that is not an
\* error, processMessage returns success, no stage after i is invoked for
\* the message and nothing is stored for retry.
C2_StopWithoutError ==
    (Ran /\ last.kind = "stop") =>
        /\ ~last.err
        /\ Len(last.calls) = last.at + 1
        /\ \A i \in 1..Len(last.calls) : last.calls[i].position <= last.at
        /\ last.added = {}

C2_Witness ==
    /\ Ran /\ last.kind = "stop"
    /\ last.at = 0
    /\ Len(last.list) >= 2
    /\ last.ctx.RetryData # Nil
    /\ last.enabled

\* C3: when stage i returns continue=false with an error, the retry-data
\* slot is non-empty, store-and-forward is enabled and the Store call
\* returns no error, exactly one object is added to the store for the
\* message, with the retry data as payload, position i, retry count 0, the
\* service key, the context's correlation-id and the current pipeline hash;
\* the error is returned to the caller whether or not Store succeeded.
C3_OneItemStored ==
    (StageError /\ last.ctx.RetryData # Nil /\ last.enabled) =>
        /\ last.err
        /\ last.storeOk => AddedAsAsked
        /\ ~last.storeOk => last.added = {}

C3_Witness ==
    /\ StageError /\ last.ctx.RetryData # Nil /\ last.enabled
    /\ last.storeOk
    /\ last.at = 1
    /\ last.added # {}

\* C3 as stated: the object is added whenever the stage failed with retry
\* data and store-and-forward is enabled.
C3_Original ==
    (StageError /\ last.ctx.RetryData # Nil /\ last.enabled) =>
        (last.err /\ AddedAsAsked)

\* C4: a stage that returns an error causes an item to be added to the
\* store if and only if store-and-forward is enabled, the stage filled the
\* retry-data slot and the Store call returned no error; with
\* store-and-forward disabled the store is left unchanged; the error is
\* surfaced to the caller in every case.
C4_StoredIffEnabledAndAsked ==
    StageError =>
        /\ last.added # {} <=>
             (last.enabled /\ last.ctx.RetryData # Nil /\ last.storeOk)
        /\ ~last.enabled => last.added = {}
        /\ last.err

C4_Witness ==
    /\ StageError
    /\ ~last.enabled
    /\ last.ctx.RetryData # Nil
    /\ last.added = {}
    /\ last.err

\* C4 as stated: the item is added exactly when store-and-forward is
\* enabled and the stage filled the retry-data slot.
C4_Original ==
    StageError =>
        /\ last.added # {} <=> (last.enabled /\ last.ctx.RetryData # Nil)
        /\ ~last.enabled => last.added = {}
        /\ last.err

\* C5: a message taken by the trigger ends in exactly one of three ways:
\* one response envelope published, one item stored for retry, or the
\* message dropped; it is never both stored and answered and never stored
\* twice.
Answered == Cardinality(last.published) = 1
Stored == Cardinality(last.added) = 1
Dropped == last.published = {} /\ last.added = {}

TickDone == loop.pc = "wait" /\ loop.applied

Entries == Range(loop.log)

InStore(id) == \E o \in store : o.ID = id

StoredAs(id) == CHOOSE o \in store : o.ID = id

MarkedForRemoval(id) == \E x \in Range(loop.itemsToRemove) : x.ID = id

MarkedForUpdate(id) == \E x \in Range(loop.itemsToUpdate) : x.ID = id

Stale(e) == e.item.Version # e.hash

Succeeded(e) == ~Stale(e) /\ e.ran /\ e.success

Failed(e) == ~Stale(e) /\ e.ran /\ ~e.success

\* C6: in a retry tick an item whose pipeline hash differs from the hash
\* of the current transform list has no transform invoked for it, is marked
\* for removal with its retry count as retrieved, and is gone from the
\* store after the tick unless its RemoveFromStore call returned an error,
\* in which case the stored object is unchanged.
C6_StaleItemRemovedUnexecuted ==
    \A e \in Entries :
        Stale(e) =>
            /\ ~e.ran
            /\ e.invoked = 0
            /\ e.item \in Range(loop.itemsToRemove)
            /\ ~MarkedForUpdate(e.item.ID)
            /\ TickDone =>
                 IF e.item.ID \in loop.removeErr
                 THEN e.item \in store
                 ELSE ~InStore(e.item.ID)

C6_Witness ==
    /\ TickDone
    /\ \E e \in Entries :
         /\ Stale(e)
         /\ e.item.ID \notin loop.removeErr
         /\ ~InStore(e.item.ID)
         /\ e.item.PipelinePosition < Len(transforms)

\* C6 as stated: the stale item is gone from the store after the tick.
C6_Original ==
    \A e \in Entries :
        Stale(e) =>
            /\ ~e.ran
            /\ e.invoked = 0
            /\ TickDone => ~InStore(e.item.ID)

Counted(e) ==
    /\ Failed(e)
    /\ MarkedForUpdate(e.item.ID)
    /\ e.item.ID \notin loop.updateErr

C8_RetryCountStepsByOne ==
    TickDone =>
        \A e \in Entries :
            InStore(e.item.ID) =>
                /\ StoredAs(e.item.ID).RetryCount >= e.item.RetryCount
                /\ StoredAs(e.item.ID).RetryCount =
                     e.item.RetryCount + (IF Counted(e) THEN 1 ELSE 0)

C8_Witness ==
    /\ TickDone
    /\ \E e \in Entries :
         /\ Counted(e)
         /\ e.item.RetryCount = 1
         /\ InStore(e.item.ID)
         /\ StoredAs(e.item.ID).RetryCount = 2

\* C8 as stated: the count is 1 higher after every tick in which the
\* re-execution failed and unchanged otherwise.
C8_Original ==
    TickDone =>
        \A e \in Entries :
            InStore(e.item.ID) =>
                StoredAs(e.item.ID).RetryCount =
                    e.item.RetryCount + (IF Failed(e) THEN 1 ELSE 0)

\* C9: with MaxRetryCount = N > 0, a failed re-execution that brings the
\* retry count to N or more marks the item for removal instead of update;
\* no object in the store has a retry count of N or more; and an item none
\* of whose Update and RemoveFromStore calls returned an error is
\* re-executed at most N times.
LoopStarted == loop.pc # "init"

Bounded == LoopStarted /\ config.MaxRetryCount > 0

C9_BoundedRetries ==
    Bounded =>
        /\ \A e \in Entries :
             (Failed(e) /\ e.item.RetryCount + 1 >= config.MaxRetryCount) =>
                 /\ MarkedForRemoval(e.item.ID)
                 /\ ~MarkedForUpdate(e.item.ID)
        /\ \A o \in store : o.RetryCount < config.MaxRetryCount
        /\ \A id \in Ids :
             id \notin portErrs => execs[id] <= config.MaxRetryCount

C9_Witness ==
    /\ Bounded /\ TickDone
    /\ config.MaxRetryCount = 2
    /\ \E e \in Entries :
         /\ Failed(e)
         /\ e.item.RetryCount = 1
         /\ MarkedForRemoval(e.item.ID)
         /\ e.item.ID \notin portErrs
         /\ execs[e.item.ID] = 2
         /\ ~InStore(e.item.ID)

\* C9 as stated: an item is re-executed at most N times.
C9_Original ==
    Bounded => \A id \in Ids : execs[id] <= config.MaxRetryCount

\* C10: with MaxRetryCount = 0 an item whose pipeline hash matches the
\* current hash and whose re-execution fails is marked for update, never
\* for removal, whatever its retry count, and is still in the store after
\* the tick.
Unbounded == LoopStarted /\ config.MaxRetryCount = 0

C10_UnboundedRetries ==
    Unbounded =>
        \A e \in Entries :
            Failed(e) =>
                /\ MarkedForUpdate(e.item.ID)
                /\ ~MarkedForRemoval(e.item.ID)
                /\ TickDone => InStore(e.item.ID)

C10_Witness ==
    /\ Unbounded /\ TickDone
    /\ \E e \in Entries :
         /\ Failed(e)
         /\ e.item.RetryCount = 2
         /\ InStore(e.item.ID)
         /\ StoredAs(e.item.ID).RetryCount = 3

\* C11: a retry loop started with a negative MaxRetryCount works in every
\* tick with MaxRetryCount 1: no tick reads the negative value, and an item
\* whose first re-execution fails is handed to RemoveFromStore, never to
\* Update, and is gone after the tick unless that call returned an error.
StartedNegative == LoopStarted /\ loop.configured < 0

Running(l) == l.pc \in {"wait", "check", "exec", "apply"}

ReExecuting(l) == l.pc = "exec"

Exited(l) == l.pc = "exited"

\* C12 as stated: at no time are two re-executions of stored items in
\* progress at once, a tick never runs while another tick has not yet
\* applied its removals and updates, and no stored item is under
\* re-execution twice at the same time.
C12_Original ==
    /\ ~(ReExecuting(loop) /\ ReExecuting(old))
    /\ ~(InTick(loop) /\ InTick(old))
    /\ (ReExecuting(loop) /\ ReExecuting(old)) =>
           loop.items[loop.i].ID # old.items[old.i].ID

\* C13 as stated: at every moment at most one retry-loop worker is alive,
\* and the loop of the new enable is never in a tick while the loop of the
\* cancelled enabled context is still inside one.
C13_Original ==
    /\ Cardinality({ w \in Workers : Running(LoopOf(w)) }) <= 1
    /\ InTick(old) => ~InTick(loop)

\* C14: a started retry loop whose application context or enabled context
\* is cancelled eventually exits, every tick terminating; a worker that has
\* exited takes no step again, and while no worker is running nothing is
\* retrieved, re-executed, updated or removed.
Reenabled == enables' # enables

C14_CancelledLoopExits ==
    /\ ((cancelled.app \/ cancelled.enabled) /\ Running(loop))
           ~> (Exited(loop) \/ loop.pc = "init")
    /\ Running(old) ~> Exited(old)
    /\ [][(Exited(loop) /\ ~Reenabled) => loop' = loop]_vars
    /\ [][(Exited(old) /\ ~Reenabled) => old' = old]_vars
    /\ [][(~Running(loop) /\ ~Running(old)) =>
              UNCHANGED <<store, execs, portErrs, nextId, probe, trg, shutdown, boot, sdk>>]_vars

C14_Witness ==
    /\ Exited(loop)
    /\ cancelled.enabled
    /\ ~cancelled.app
    /\ execs[1] > 0


\* C15 as stated: the hashes of two transform lists are equal if and only
\* if the two are the same ordered list of transforms; a list with a
\* transform substituted, added, removed or moved has a different hash.
C15_Original ==
    probe.hashed => ((probe.ha = probe.hb) <=> (probe.a = probe.b))

\* C16 as stated: a message runs on the transform list captured at its
\* entry, and the object stored for it carries the hash of that captured
\* list, whatever SetTransforms did while the message was in flight.
C16_Original ==
    \A o \in last.added :
        /\ Len(last.calls) <= Len(last.list)
        /\ o.PipelinePosition < Len(last.list)
        /\ o.Version = calculatePipelineHash(last.list)

\* C17 as stated: for every message whose pipeline ends without error and
\* with a response payload that is not nil, of any length, the worker does
\* not fail and the envelope it publishes has the explicit response content
\* type when one is set, else application/json when the first payload byte
\* is '{', else application/cbor.
Responds == Ran /\ ~last.err /\ last.ctx.ResponseData # NilBytes

ContentTypeAsked ==
    IF last.ctx.ResponseContentType # "" THEN last.ctx.ResponseContentType
    ELSE IF Len(last.ctx.ResponseData) > 0 /\ last.ctx.ResponseData[1] = 123
         THEN ContentTypeJSON
         ELSE ContentTypeCBOR

C17_Original ==
    Responds =>
        /\ ~last.panicked
        /\ last.pubOk =>
             \E p \in last.published :
                 /\ last.published = {p}
                 /\ p.envelope.ContentType = ContentTypeAsked

\* C18: for one inbound message the trigger publishes at most one response
\* envelope, and only when processMessage returned no error and the context
\* holds a response payload; the envelope has the correlation-id of the
\* inbound message and the response payload of the context and goes to the
\* configured publish topic.  After an error nothing is published, whatever
\* a stage left in the response payload.
C18_OneResponseAsAsked ==
    last.m # 0 =>
        /\ Cardinality(last.published) <= 1
        /\ \A p \in last.published :
               /\ ~last.err
               /\ last.ctx.ResponseData # NilBytes
               /\ p.topic = PublishTopic
               /\ p.envelope.CorrelationID = CorrelationOf(last.m)
               /\ p.envelope.Payload = last.ctx.ResponseData
        /\ last.err => last.published = {}
        /\ last.published \subseteq bus

C18_Witness ==
    /\ Ran
    /\ last.m = 2
    /\ Len(last.calls) = 2
    /\ \E p \in last.published : p.envelope.Payload = JsonBytes
    /\ Cardinality(bus) = 2

\* C19: a consumer hands each message to a new worker and is back at its
\* select at once: while a worker started earlier has not finished, the
\* consumer of every topic can take the next message, so messages of one
\* topic can finish in either order.
InFlight == \E n \in Msgs : msgs[n].pc = "ready"
Waiting == \E n \in Msgs : msgs[n].pc = "new"

C19_ReceivesWhileWorking ==
    \A t \in Topics :
        (Alive /\ InFlight /\ Waiting /\ consumers[t].pc = "select") =>
            ENABLED ReceiveOn(t)

C19_Witness ==
    /\ last.m = 1
    /\ Ran
    /\ msgs[2].pc = "done"
    /\ msgs[2].topic = last.topic
    /\ Alive

\* C20 as stated: once the application context is cancelled, every consumer
\* and the auxiliary goroutine eventually returns, having called Done
\* exactly once, and the wait group's counter reaches zero.
Exits(g) == g.pc = "exited" /\ g.dones = 1

C20_Original ==
    /\ \A t \in Topics : cancelled.app ~> Exits(consumers[t])
    /\ cancelled.app ~> Exits(auxiliary)
    /\ cancelled.app ~> (appWg = 0)
    /\ [](\A t \in Topics : consumers[t].dones <= 1)
    /\ [](auxiliary.dones <= 1)

\* C21 as stated: every worker is counted by the application wait group, so
\* once the join of the shutdown sequence has returned no worker is still
\* running a pipeline or a retry tick, and after the deferred cleanup has
\* disconnected the client no worker attempts a publish.
PublishAttempted ==
    \/ /\ last'.m # last.m
       /\ ~last'.err /\ last'.ctx.ResponseData # NilBytes /\ ~last'.panicked
    \/ auxiliary'.attempts # auxiliary.attempts

C21_Original ==
    /\ [](shutdown = "joined" =>
            (~InFlight /\ ~InTick(loop) /\ ~InTick(old)))
    /\ [][shutdown # "running" => ~PublishAttempted]_vars

\* C22: every envelope the auxiliary goroutine takes from the background
\* channel is handed to one publisher, which calls Publish once, with the
\* envelope as received and the configured publish topic; the envelope
\* never reaches the pipeline runtime; after a Publish that failed the
\* goroutine is still at its select and takes the next envelope.
Forwarded(k) ==
    { i \in 1..Len(auxiliary.attempts) : auxiliary.attempts[i].k = k }

C22_BackgroundForwardedOnce ==
    /\ \A k \in 1..auxiliary.background :
           /\ Cardinality(Forwarded(k)) = IF k \in auxiliary.pending THEN 0 ELSE 1
           /\ \A i \in Forwarded(k) :
                  /\ auxiliary.attempts[i].envelope = BackgroundEnvelope(k)
                  /\ auxiliary.attempts[i].topic = PublishTopic
    /\ \A i \in 1..Len(auxiliary.attempts) :
           auxiliary.attempts[i].k \in 1..auxiliary.background
    /\ \A m \in Msgs : msgs[m].ctx.CorrelationID \notin
           { BackgroundEnvelope(k).CorrelationID : k \in 1..MaxBackground }
    /\ last.ctx.CorrelationID \notin
           { BackgroundEnvelope(k).CorrelationID : k \in 1..MaxBackground }
    /\ (Alive /\ auxiliary.pc = "select"
          /\ auxiliary.background < auxiliary.inbox) => ENABLED AuxBackground

C22_Witness ==
    /\ ~cancelled.app
    /\ Len(auxiliary.attempts) = 2
    /\ ~auxiliary.attempts[1].ok
    /\ auxiliary.attempts[2].ok
    /\ auxiliary.pending = {}
    /\ Cardinality(bus) = 1

\* C23: when Initialize returns success the client is connected, Subscribe
\* has been called exactly once, with all topic channels and the error
\* channel, and a consumer has been started for every topic channel (each
\* added to the wait group, as is the auxiliary goroutine); when it returns
\* an error it returns no deferred cleanup.
C23_SuccessAfterSubscribe ==
    /\ boot.result = "ok" =>
          /\ boot.pc = "returned"
          /\ boot.connected
          /\ Len(boot.subscribed) = 1
          /\ boot.subscribed[1] = [topics |-> boot.topics, errors |-> TRUE]
          /\ boot.started = boot.topics
          /\ boot.aux
          /\ boot.deferred
    /\ boot.result = "error" => (boot.pc = "returned" /\ ~boot.deferred)
    /\ boot.deferred => boot.result = "ok"
    /\ boot.pc # "returned" => boot.result = "none"
    /\ appWg = Len(boot.started) + (IF boot.aux THEN 1 ELSE 0)

C23_Witness ==
    /\ boot.result = "ok"
    /\ Len(boot.topics) = 2
    /\ appWg = 3

\* C24 as stated: for every SubscribeTopics string Initialize makes one
\* channel, and starts one consumer, for each comma-separated topic that is
\* not empty after trimming, and one channel with the empty topic when the
\* string holds no topic; there is always at least one topic channel.
NamedTopics(str) == DeleteEmptyAndTrim(FieldsFunc(str))

TopicsMade ==
    \/ boot.pc \in {"topics", "connected", "spawned"}
    \/ boot.pc = "returned" /\ boot.connected

C24_Original ==
    TopicsMade =>
        /\ Len(boot.topics) >= 1
        /\ boot.topics = IF NamedTopics(boot.subscribeTopics) = <<>>
                         THEN << <<>> >>
                         ELSE NamedTopics(boot.subscribeTopics)
        /\ boot.result = "ok" => boot.started = boot.topics

\* C25: RegisterCustomTriggerFactory returns an error for a name that is
\* HTTP, EDGEX-MESSAGEBUS or EXTERNAL-MQTT in any case and then leaves the
\* registry as it was; for any other name it returns nil and the registry
\* holds the factory under the upper-cased name.
Builtins == {TriggerTypeHTTP, TriggerTypeMessageBus, TriggerTypeMQTT}

SameIgnoringCase(a, b) == ToLower(a) = ToLower(b)

NamesBuiltin(name) == \E b \in Builtins : SameIgnoringCase(name, b)

C25_BuiltinNamesRejected ==
    sdk.registered.done =>
        LET name == sdk.registered.name
        IN  /\ sdk.registered.err <=> NamesBuiltin(name)
            /\ sdk.registered.err =>
                  sdk.customTriggerFactories = sdk.registered.before
            /\ ~sdk.registered.err =>
                  /\ ToUpper(name) \in DOMAIN sdk.customTriggerFactories
                  /\ \A n \in DOMAIN sdk.registered.before \ {ToUpper(name)} :
                        /\ n \in DOMAIN sdk.customTriggerFactories
                        /\ sdk.customTriggerFactories[n] = sdk.registered.before[n]
            /\ \A n \in DOMAIN sdk.customTriggerFactories :
                  n = ToUpper(n) /\ n \notin Builtins

C25_Witness ==
    /\ sdk.registered.done
    /\ sdk.registered.err
    /\ sdk.registered.name = ToLower(TriggerTypeMQTT)
    /\ sdk.registered.before # <<>>
    /\ sdk.customTriggerFactories = sdk.registered.before

\* C26: setupTrigger compares Trigger.Type ignoring case; a built-in name
\* gives the built-in trigger whatever is registered; any other type gives
\* the trigger of the factory registered under that name in any case; with
\* no such factory, or when the factory returns an error, the result is nil
\* and an error is logged.
RegisteredAs(type) ==
    { n \in DOMAIN sdk.setup.factories : SameIgnoringCase(n, type) }

C27_EmptyPipelineRejected ==
    sdk.pipeline.done =>
        /\ Len(sdk.pipeline.list) = 0 =>
              /\ sdk.pipeline.err
              /\ transforms = sdk.pipeline.before
              /\ pipelineHash = sdk.pipeline.hash
        /\ Len(sdk.pipeline.list) >= 1 =>
              /\ ~sdk.pipeline.err
              /\ Len(transforms) = Len(sdk.pipeline.list)
              /\ \A i \in 1..Len(transforms) : transforms[i] = sdk.pipeline.list[i]

C27_Witness ==
    /\ sdk.pipeline.done
    /\ sdk.pipeline.list = <<>>
    /\ sdk.pipeline.err
    /\ sets = 2
    /\ transforms = <<PostA, FilterT>>

\* C28: on a runtime whose transform list is empty, a message whose
\* envelope decodes is processed with success: no stage is invoked, nothing
\* is stored, and the response payload of the context stays unset (so
\* nothing is published).
C28_EmptyPipelineSucceeds ==
    (Ran /\ last.list = <<>>) =>
        /\ ~last.err
        /\ last.calls = <<>>
        /\ last.added = {}
        /\ last.ctx.ResponseData = NilBytes
        /\ last.published = {}
        /\ ~last.panicked

C28_Witness ==
    /\ Ran
    /\ last.list = <<>>
    /\ last.enabled
    /\ transforms = <<>>
    /\ ~last.err

\* C29: a message whose envelope does not decode (malformed payload,
\* unsupported content type, target type not a pointer) ends with a decode
\* error: no stage is invoked, the response payload stays unset, nothing is
\* published and nothing is stored, with store-and-forward enabled or not.
C29_DecodeFailureIsTerminal ==
    (last.m # 0 /\ last.why # "") =>
        /\ ~last.decoded
        /\ last.err
        /\ last.kind = "decode"
        /\ last.calls = <<>>
        /\ last.ctx.ResponseData = NilBytes
        /\ last.added = {}
        /\ last.published = {}
        /\ \A m \in Msgs : msgs[m].pc = "ready" => msgs[m].why = ""

C29_Witness ==
    /\ last.m # 0
    /\ last.why = "target-not-addressable"
    /\ last.err
    /\ config.Enabled
    /\ transforms # <<>>
    /\ store = {}

\* C30: HTTPExport returns a transform if and only if the method is present
\* and is post or put ignoring case, url and mimetype are present, every
\* optional boolean that is present parses as a bool, and headername,
\* secretpath and secretname, trimmed, are all non-empty or all empty; in
\* every other case it returns nil.
Trimmed(name) == TrimSpace(sdk.export.parameters[name].value)

BooleansParse ==
    \A name \in {"persistonerror", "continueonsenderror", "returninputdata"} :
        sdk.export.parameters[name].ok =>
            ParseBool(sdk.export.parameters[name].value)

SecretNames == {"headername", "secretpath", "secretname"}

C30_Original ==
    sdk.export.pc = "returned" =>
        (sdk.export.transform # NilTransform <=>
            /\ sdk.export.parameters.method.ok
            /\ ToLower(sdk.export.parameters.method.value)
                  \in {ExportMethodPost, ExportMethodPut}
            /\ sdk.export.parameters.url.ok
            /\ sdk.export.parameters.mimetype.ok
            /\ BooleansParse
            /\ \/ \A name \in SecretNames : Trimmed(name) # <<>>
               \/ \A name \in SecretNames : Trimmed(name) = <<>>)

\* C31: a stored item that a retry tick re-executes is resumed at its
\* stored pipeline position, with its stored payload as the input of the
\* first stage invoked and a context that carries its correlation-id: no
\* stage before the position is invoked, and the stages from the position
\* on are invoked in order.
C31_ResumedAtStoredPosition ==
    \A e \in Entries :
        e.ran =>
            /\ e.resumed.correlation = e.item.CorrelationID
            /\ e.resumed.inOrder
            /\ e.invoked >= 1 =>
                  /\ e.resumed.at = e.item.PipelinePosition
                  /\ e.resumed.input = e.item.Payload

C31_Witness ==
    \E e \in Entries :
        /\ e.ran
        /\ e.item.PipelinePosition = 1
        /\ e.resumed.at = 1
        /\ e.invoked = 2
        /\ e.success

\* C32 as stated: with SetTransforms running during a retry tick, the
\* transform list a stored item is re-executed against is the list whose
\* hash was compared with the item's version.
C32_Original ==
    \A e \in Entries : e.ran => e.sameList

OfAnotherService(o) == o.AppServiceKey # serviceKey

\* C33: a retry tick retrieves, re-executes, updates and removes only the
\* stored items whose service key is this service's key: an item stored
\* under another key is never among the retrieved items, never re-executed
\* and never marked for removal or update, and no step removes or changes it.
C33_OnlyOwnServiceKey ==
    /\ [](/\ \A x \in Range(loop.items) \cup Range(loop.itemsToRemove)
                    \cup Range(loop.itemsToUpdate) : ~OfAnotherService(x)
          /\ \A e \in Entries : ~OfAnotherService(e.item)
          /\ \A o \in store :
                OfAnotherService(o) =>
                    /\ execs[o.ID] = 0
                    /\ ~MarkedForRemoval(o.ID)
                    /\ ~MarkedForUpdate(o.ID))
    /\ [][\A o \in store : OfAnotherService(o) => o \in store']_vars

C33_Witness ==
    /\ \E o \in store : OfAnotherService(o)
    /\ TickDone
    /\ \E e \in Entries : e.ran /\ ~InStore(e.item.ID)

\* C38: when RetrieveFromStore returns an error the tick ends there: no
\* item is re-executed, nothing is marked for update or removal and neither
\* Update nor RemoveFromStore is called, so the store is as it was; the
\* loop is back at its select, where the next tick is taken.
C38_RetrieveErrorEndsTick ==
    /\ [](loop.failed =>
            /\ loop.pc = "wait"
            /\ loop.items = <<>>
            /\ loop.log = <<>>
            /\ loop.itemsToRemove = <<>>
            /\ loop.itemsToUpdate = <<>>
            /\ ~loop.applied
            /\ (/\ Alive
                /\ RetrieveFromStore(store, serviceKey) # {}
                /\ \A o \in store : execs[o.ID] < MaxExecs)
                  => ENABLED Retrieve)
    /\ [][loop'.failed /\ ~loop.failed =>
            /\ store' = store
            /\ execs' = execs
            /\ nextId' = nextId]_vars

C38_Witness ==
    /\ loop.failed
    /\ \E o \in store : ~OfAnotherService(o) /\ o.RetryCount = 1

Fresh(ctx, correlationID) ==
    /\ ctx.CorrelationID = correlationID
    /\ ctx.RetryData = Nil
    /\ ctx.ResponseData = NilBytes
    /\ ctx.ResponseContentType = ""

IdsIn(items) == { items[i].ID : i \in 1..Len(items) }

\* C35: processRetryItems files every retrieved item under exactly one of
\* its two results.  While the items are gone through, and when the tick is
\* done, no item is twice in a result or in both, the results hold exactly
\* the items gone through so far, and at the end every retrieved item; an
\* item is filed for update only if its version matched the hash, its
\* re-execution failed and its raised retry count has not reached a
\* positive MaxRetryCount.
C35_RemoveOrUpdate ==
    LET R == loop.itemsToRemove
        U == loop.itemsToUpdate
    IN  /\ Cardinality(IdsIn(R)) = Len(R)
        /\ Cardinality(IdsIn(U)) = Len(U)
        /\ IdsIn(R) \cap IdsIn(U) = {}
        /\ IdsIn(R) \cup IdsIn(U) = { e.item.ID : e \in Entries }
        /\ Len(R) + Len(U) = Len(loop.log)
        /\ (loop.pc = "apply" \/ TickDone) =>
              IdsIn(R) \cup IdsIn(U) = IdsIn(loop.items)
        /\ \A e \in Entries :
              MarkedForUpdate(e.item.ID) =>
                  /\ e.item.Version = e.hash
                  /\ e.ran
                  /\ ~e.success
                  /\ \/ config.MaxRetryCount = 0
                     \/ e.item.RetryCount + 1 < config.MaxRetryCount

C35_Witness ==
    /\ TickDone
    /\ Len(loop.items) = 2
    /\ Len(loop.itemsToRemove) = 1
    /\ Len(loop.itemsToUpdate) = 1
    /\ config.MaxRetryCount = 2

C37_StoredDuringTick ==
    /\ [](\A o \in last.added : o.RetryCount = 0)
    /\ [][(InTick(loop) /\ last' # last /\ last'.added # {}) =>
            /\ loop' = loop
            /\ last'.added \subseteq store'
            /\ \A o \in last'.added : o.ID \notin IdsIn(loop.items)]_vars
    /\ [][InTick(loop) =>
            \A o \in store :
                (~OfAnotherService(o) /\ o.ID \notin IdsIn(loop.items)) =>
                    /\ o \in store'
                    /\ execs'[o.ID] = execs[o.ID]
                    /\ o.ID \notin IdsIn(loop'.itemsToRemove)
                    /\ o.ID \notin IdsIn(loop'.itemsToUpdate)
                    /\ \A e \in Range(loop'.log) : e.item.ID # o.ID]_vars
    /\ [][(loop.pc = "wait" /\ loop'.pc = "check") =>
            Range(loop'.items) = { o \in store : ~OfAnotherService(o) }]_vars

C37_Witness ==
    /\ last.during
    /\ loop.pc = "check"
    /\ loop.log = <<>>
    /\ \E x \in Range(loop.items) :
          /\ x \in last.added
          /\ x.RetryCount = 0
          /\ execs[x.ID] = 0
    /\ \E o \in store : o.ID = 1 /\ o.RetryCount >= 1

\* C39 as stated: when Initialize returns an error after the client was
\* connected (the Subscribe call returned an error), no consumer and no
\* auxiliary goroutine it started is still running, and the client is not
\* left connected without a deferred cleanup that disconnects it.
C39_Original ==
    (boot.result = "error" /\ boot.connected /\ boot.subscribed # <<>>) =>
        /\ appWg = 0
        /\ \A t \in DOMAIN consumers : consumers[t].pc # "select"
        /\ boot.deferred

====
